---- MODULE Spec2Model ----
(***************************************************************************)
(* A model of raire-rs: the vote store, the audit difficulty, the two      *)
(* assertion shapes, the IRV winner finder, the RAIRE best-first search    *)
(* and the assertion trimmer, as a state machine whose steps are the       *)
(* steps of RaireProblem::solve / raire.                                   *)
(*                                                                         *)
(* Candidates are the integers 0..N-1 as in the code (CandidateIndex).     *)
(* Rust vectors are TLA+ sequences, so position i of a vector is position  *)
(* i+1 of the sequence.                                                    *)
(***************************************************************************)
EXTENDS Integers, Sequences, FiniteSets, TLC

(***************************************************************************)
(* Bounds of the explored inputs.                                          *)
(***************************************************************************)
MaxCandidates == 3   \* num_candidates ranges over 0..MaxCandidates
MaxVotes == 3        \* distinct vote records in a problem
MaxCount == 2        \* multiplicity n of a vote record
MaxPrefLen == 2      \* length of a vote's preference list

\* the bounds of the elections on which run_election alone is explored
ElectionMaxCandidates == 4
ElectionMaxVotes == 4

VARIABLES
    num_candidates,  \* RaireProblem.num_candidates
    votes,           \* Votes.votes: sequence of [n, prefs]
    audit,           \* RaireProblem.audit
    pc,              \* where solve / raire is: "solve", "search", "done"; "election"
                     \* and "elected" around run_election taken alone
    claimed_winner,  \* RaireProblem.winner: -1 for None
    irv_result,      \* the IRVResult of votes.run_election()
    assertions,      \* A: Vec<AssertionAndDifficulty>
    bound,           \* LB
    neb_cache,       \* the NotEliminatedBeforeCache of raire
    frontier,        \* F: the BinaryHeap of SequenceAndEffort, as the set of its entries
    trim_algorithm,  \* the TrimAlgorithm used by the trim step ("unset" before)
    solution         \* RaireSolution.solution

vars == <<num_candidates, votes, audit, pc, claimed_winner, irv_result, neb_cache,
          assertions, bound, frontier, trim_algorithm, solution>>

(***************************************************************************)
(* Sequence helpers (Vec operations used by the code).                     *)
(***************************************************************************)
Range(s) == { s[i] : i \in DOMAIN s }

Contains(s, c) == \E i \in DOMAIN s : s[i] = c

\* slice.ends_with(suffix)
EndsWith(s, suffix) ==
    /\ Len(suffix) <= Len(s)
    /\ \A i \in 1..Len(suffix) : s[Len(s) - Len(suffix) + i] = suffix[i]

\* continuing[0..i] ++ continuing[i+1..], i a 1-based position
RemoveAt(s, i) == [ j \in 1..(Len(s) - 1) |-> IF j < i THEN s[j] ELSE s[j + 1] ]

\* (0..n).collect()
Candidates(n) == 0..(n - 1)

AllCandidates(n) == [ i \in 1..n |-> i - 1 ]

RECURSIVE SumSeq(_)
SumSeq(s) == IF Len(s) = 0 THEN 0 ELSE s[1] + SumSeq(Tail(s))

MinSeq(s) == CHOOSE x \in Range(s) : \A y \in Range(s) : x <= y

\* the vector sorted ascending (sort_unstable_by_key on distinct candidates)
RECURSIVE SortAscending(_)
SortAscending(s) ==
    IF Len(s) = 0 THEN <<>>
    ELSE LET m == MinSeq(s)
             i == CHOOSE k \in DOMAIN s : s[k] = m
         IN <<m>> \o SortAscending(RemoveAt(s, i))

(***************************************************************************)
(* Vote store (irv.rs).                                                    *)
(***************************************************************************)
\* top_sub_preference_array looking at the first preference alone: a vote
\* whose first preference is not continuing counts for nobody
first_preference_array(prefs, continuing) ==
    IF Len(prefs) > 0 /\ Contains(continuing, prefs[1])
    THEN CHOOSE i \in DOMAIN continuing :
             /\ continuing[i] = prefs[1]
             /\ \A h \in DOMAIN continuing : continuing[h] = prefs[1] => h <= i
    ELSE 0

\* Vote::top_sub_preference_array: the position in continuing of the first
\* preference that is continuing, 0 for None. continuing_map holds, for a
\* candidate, the last position of continuing that names it.
top_sub_preference_array(prefs, continuing) ==
    IF \E j \in DOMAIN prefs : Contains(continuing, prefs[j])
    THEN LET j == CHOOSE k \in DOMAIN prefs :
                     /\ Contains(continuing, prefs[k])
                     /\ \A h \in 1..(k - 1) : ~Contains(continuing, prefs[h])
             c == prefs[j]
         IN CHOOSE i \in DOMAIN continuing :
                /\ continuing[i] = c
                /\ \A h \in DOMAIN continuing : continuing[h] = c => h <= i
    ELSE 0

\* the tally of position i counting each vote record once, whatever its
\* multiplicity n
RECURSIVE TallyForCountingRecords(_, _, _)
TallyForCountingRecords(vs, continuing, i) ==
    IF Len(vs) = 0 THEN 0
    ELSE (IF top_sub_preference_array(vs[1].prefs, continuing) = i THEN 1 ELSE 0)
         + TallyForCountingRecords(Tail(vs), continuing, i)

\* the loop over self.votes of restricted_tallies, for res[i - 1]
RECURSIVE TallyFor(_, _, _)
TallyFor(vs, continuing, i) ==
    IF Len(vs) = 0 THEN 0
    ELSE (IF top_sub_preference_array(vs[1].prefs, continuing) = i THEN vs[1].n ELSE 0)
         + TallyFor(Tail(vs), continuing, i)

\* Votes::restricted_tallies
restricted_tallies(vs, continuing) ==
    [ i \in 1..Len(continuing) |-> TallyFor(vs, continuing, i) ]

RECURSIVE FirstPrefFor(_, _)
FirstPrefFor(vs, c) ==
    IF Len(vs) = 0 THEN 0
    ELSE (IF Len(vs[1].prefs) > 0 /\ vs[1].prefs[1] = c THEN vs[1].n ELSE 0)
         + FirstPrefFor(Tail(vs), c)

\* Votes::first_preference_only_tally, over the array Votes::new fills
first_preference_only_tally(vs, c) == FirstPrefFor(vs, c)

RECURSIVE total_votes(_)
total_votes(vs) == IF Len(vs) = 0 THEN 0 ELSE vs[1].n + total_votes(Tail(vs))

(***************************************************************************)
(* Audit difficulty (audit_type.rs).  An AssertionDifficulty is an f64;    *)
(* the model keeps the exact quotient [num, den], den = 0 standing for     *)
(* f64::INFINITY.  Within the explored inputs two quotients are equal as   *)
(* f64 exactly when they are equal as fractions.                           *)
(***************************************************************************)
Infinity == [num |-> 1, den |-> 0]

ZeroDifficulty == [num |-> 0, den |-> 1]

is_infinite(d) == d.den = 0

\* a < b on f64 values
DLess(a, b) ==
    IF a.den = 0 THEN FALSE
    ELSE IF b.den = 0 THEN TRUE
    ELSE a.num * b.den < b.num * a.den

DLeq(a, b) == ~DLess(b, a)

DEq(a, b) == ~DLess(a, b) /\ ~DLess(b, a)

\* the difficulty with the margin taken in absolute value, finite also when
\* the loser is ahead of the winner
OneOnAbsoluteMarginDifficulty(aud, lowest_tally_winner, highest_tally_loser) ==
    IF lowest_tally_winner = highest_tally_loser THEN Infinity
    ELSE [num |-> aud.total_auditable_ballots,
          den |-> IF lowest_tally_winner > highest_tally_loser
                  THEN lowest_tally_winner - highest_tally_loser
                  ELSE highest_tally_loser - lowest_tally_winner]

\* BallotComparisonOneOnDilutedMargin::difficulty
OneOnMarginDifficulty(aud, lowest_tally_winner, highest_tally_loser) ==
    IF lowest_tally_winner <= highest_tally_loser THEN Infinity
    ELSE [num |-> aud.total_auditable_ballots,
          den |-> lowest_tally_winner - highest_tally_loser]

\* BallotPollingOneOnDilutedMarginSquared::difficulty
OneOnMarginSqDifficulty(aud, lowest_tally_winner, highest_tally_loser) ==
    IF lowest_tally_winner <= highest_tally_loser THEN Infinity
    ELSE [num |-> aud.total_auditable_ballots * aud.total_auditable_ballots,
          den |-> (lowest_tally_winner - highest_tally_loser)
                  * (lowest_tally_winner - highest_tally_loser)]

(***************************************************************************)
(* The f64 values that are not numbers, in the same [num, den] form: with  *)
(* den = 0, num > 0 is f64::INFINITY, num < 0 is f64::NEG_INFINITY and     *)
(* num = 0 is NaN.  The logarithms of BRAVO and MACRO are irrational, so   *)
(* of a BRAVO difficulty the model keeps the sign and the kind only: num   *)
(* is -1, 0 or 1 and den is 1 for a number.  A MACRO difficulty is kept    *)
(* exactly, in units of -ln(confidence), when the confidence is in (0,1).  *)
(***************************************************************************)
NaN == [num |-> 0, den |-> 0]

NegInfinity == [num |-> 0 - 1, den |-> 0]

is_nan(d) == d.den = 0 /\ d.num = 0

Sgn(x) == IF x > 0 THEN 1 ELSE IF x = 0 THEN 0 ELSE 0 - 1

RECURSIVE Pow(_, _)
Pow(b, e) == IF e = 0 THEN 1 ELSE b * Pow(b, e - 1)

\* a / b on f64 values of which the sign and the kind are kept; a zero
\* divisor is +0.0
FDiv(a, b) ==
    IF is_nan(a) \/ is_nan(b) THEN NaN
    ELSE IF a.den = 0 /\ b.den = 0 THEN NaN
    ELSE IF a.den # 0 /\ a.num = 0 /\ b.den # 0 /\ b.num = 0 THEN NaN
    ELSE IF b.den = 0 THEN ZeroDifficulty
    ELSE IF b.num = 0 THEN [num |-> Sgn(a.num), den |-> 0]
    ELSE [num |-> Sgn(a.num) * Sgn(b.num), den |-> IF a.den = 0 THEN 0 ELSE 1]

\* 0.5*a.ln() - c.ln() for the fractions a and c, c >= 0 and a > 0: the
\* logarithm of zero is -inf, and otherwise the value is half the logarithm
\* of a/c^2
HalfLnMinusLn(a, c) ==
    IF c.num = 0 THEN Infinity
    ELSE [num |-> Sgn(a.num * c.den * c.den - a.den * c.num * c.num), den |-> 1]

\* w*a.ln() + l*b.ln() for the fractions a, b >= 0: the logarithm of zero
\* is -inf and 0.0 * -inf is NaN; otherwise the value is the logarithm of
\* a^w * b^l
WeightedLns(w, a, l, b) ==
    IF (a.num = 0 /\ w = 0) \/ (b.num = 0 /\ l = 0) THEN NaN
    ELSE IF a.num = 0 \/ b.num = 0 THEN NegInfinity
    ELSE [num |-> Sgn(Pow(a.num, w) * Pow(b.num, l) - Pow(a.den, w) * Pow(b.den, l)),
          den |-> 1]

\* BallotPollingBRAVO::average_sample_number_original_paper_using_total_auditable_ballots
\* past the test of w <= l
BRAVOAverageSampleNumber(aud, w, l) ==
    LET twos == [num |-> 2 * w, den |-> w + l]
        numerator == HalfLnMinusLn(twos, aud.confidence)
        denominator == FDiv(WeightedLns(w, twos, l, [num |-> 2 * (w + l) - 2 * w, den |-> w + l]),
                            [num |-> Sgn(aud.total_auditable_ballots), den |-> 1])
    IN FDiv(numerator, denominator)

\* BallotPollingBRAVO::difficulty
BRAVODifficulty(aud, lowest_tally_winner, highest_tally_loser) ==
    IF lowest_tally_winner <= highest_tally_loser THEN Infinity
    ELSE BRAVOAverageSampleNumber(aud, lowest_tally_winner, highest_tally_loser)

\* BallotComparisonMACRO::difficulty: -self.confidence.ln()*u
MACRODifficulty(aud, lowest_tally_winner, highest_tally_loser) ==
    IF lowest_tally_winner <= highest_tally_loser THEN Infinity
    ELSE LET v == lowest_tally_winner - highest_tally_loser
             u == [num |-> 2 * aud.error_inflation_factor.num * aud.total_auditable_ballots,
                   den |-> aud.error_inflation_factor.den * v]
         IN IF aud.confidence.num = 0
            THEN (IF u.num = 0 THEN NaN ELSE Infinity)
            ELSE IF aud.confidence.num < aud.confidence.den THEN u
            ELSE IF aud.confidence.num = aud.confidence.den THEN ZeroDifficulty
            ELSE [num |-> 0 - u.num, den |-> u.den]

\* <Audit as AuditType>::difficulty (active_paper_count is not used)
difficulty(aud, lowest_tally_winner, highest_tally_loser, active_paper_count) ==
    CASE aud.type = "BRAVO" ->
             BRAVODifficulty(aud, lowest_tally_winner, highest_tally_loser)
      [] aud.type = "MACRO" ->
             MACRODifficulty(aud, lowest_tally_winner, highest_tally_loser)
      [] aud.type = "OneOnMargin" ->
             OneOnMarginDifficulty(aud, lowest_tally_winner, highest_tally_loser)
      [] aud.type = "OneOnMarginSq" ->
             OneOnMarginSqDifficulty(aud, lowest_tally_winner, highest_tally_loser)

(***************************************************************************)
(* Assertions (assertions.rs).                                             *)
(***************************************************************************)
NEB(w, l) == [type |-> "NEB", winner |-> w, loser |-> l, continuing |-> <<>>]

NEN(w, l, cont) == [type |-> "NEN", winner |-> w, loser |-> l, continuing |-> cont]

AssertionAndDifficulty(a, d) == [assertion |-> a, difficulty |-> d]

\* NotEliminatedBefore::difficulty
NEBDifficulty(vs, aud, w, l) ==
    LET tally_winner == first_preference_only_tally(vs, w)
        tally_loser == restricted_tallies(vs, <<w, l>>)[2]
    IN difficulty(aud, tally_winner, tally_loser, tally_winner + tally_loser)

\* NotEliminatedBeforeCache::new and ::difficulty: cache[winner][loser]
NotEliminatedBeforeCache(vs, aud, n) ==
    [ w \in Candidates(n) |->
        [ l \in Candidates(n) |->
            IF w = l THEN Infinity ELSE NEBDifficulty(vs, aud, w, l) ] ]

\* the scan made from the front of the elimination order, so that the
\* candidate eliminated first decides
RECURSIVE check_winner_scanning_from_front(_, _, _)
check_winner_scanning_from_front(elimination_order, w, l) ==
    IF Len(elimination_order) = 0 THEN "NeedsMoreDetail"
    ELSE IF elimination_order[1] = w THEN "Ok"
    ELSE IF elimination_order[1] = l THEN "Contradiction"
    ELSE check_winner_scanning_from_front(Tail(elimination_order), w, l)

\* check_winner_eliminated_after_loser: scan from the end
RECURSIVE check_winner_eliminated_after_loser(_, _, _)
check_winner_eliminated_after_loser(elimination_order, w, l) ==
    IF Len(elimination_order) = 0 THEN "NeedsMoreDetail"
    ELSE LET c == elimination_order[Len(elimination_order)]
         IN IF c = w THEN "Ok"
            ELSE IF c = l THEN "Contradiction"
            ELSE check_winner_eliminated_after_loser(
                     SubSeq(elimination_order, 1, Len(elimination_order) - 1), w, l)

\* NotEliminatedNext::ok_elimination_order_suffix
NENEffect(a, elimination_order_suffix) ==
    LET k == Len(a.continuing)
        len == Len(elimination_order_suffix)
        suffix == IF len > k
                  THEN SubSeq(elimination_order_suffix, len - k + 1, len)
                  ELSE elimination_order_suffix
    IN IF \E i \in DOMAIN suffix : ~Contains(a.continuing, suffix[i]) THEN "Ok"
       ELSE IF Len(suffix) = k
            THEN (IF suffix[1] = a.winner THEN "Contradiction" ELSE "Ok")
            ELSE (IF Contains(suffix, a.winner) THEN "Ok" ELSE "NeedsMoreDetail")

\* Assertion::ok_elimination_order_suffix
ok_elimination_order_suffix(a, elimination_order_suffix) ==
    IF a.type = "NEB"
    THEN check_winner_eliminated_after_loser(elimination_order_suffix, a.winner, a.loser)
    ELSE NENEffect(a, elimination_order_suffix)

\* NotEliminatedBefore::find_best_assertion_using_cache: the loop over alt_c,
\* best = <<>> for None; best_asn starts at f64::MAX, which every finite
\* difficulty is below and f64::INFINITY is not.
RECURSIVE NEBLoop(_, _, _, _, _, _)
NEBLoop(c, later_in_pi, cache, n, alt_c, best) ==
    IF alt_c >= n THEN best
    ELSE IF alt_c = c THEN NEBLoop(c, later_in_pi, cache, n, alt_c + 1, best)
    ELSE LET contest == IF Contains(later_in_pi, alt_c)
                        THEN NEB(c, alt_c) ELSE NEB(alt_c, c)
             asn == cache[contest.winner][contest.loser]
             better == IF best = <<>> THEN ~is_infinite(asn)
                       ELSE DLess(asn, best[1].difficulty)
         IN NEBLoop(c, later_in_pi, cache, n, alt_c + 1,
                    IF better THEN <<AssertionAndDifficulty(contest, asn)>> ELSE best)

\* the best NEB assertion found as if no candidate came later in pi: every
\* contest has c as its loser
find_best_assertion_ignoring_pi(c, later_in_pi, cache, n) ==
    NEBLoop(c, <<>>, cache, n, 0, <<>>)

find_best_assertion_using_cache(c, later_in_pi, cache, n) ==
    NEBLoop(c, later_in_pi, cache, n, 0, <<>>)

\* NotEliminatedNext::find_best_difficulty: the loop choosing the loser
\* (tallies[i] <= tally_loser, so the last of the lowest wins); <<>> for None.
RECURSIVE NENLoser(_, _, _, _, _)
NENLoser(continuing, tallies, w, i, best) ==
    IF i > Len(continuing) THEN best
    ELSE IF continuing[i] = w THEN NENLoser(continuing, tallies, w, i + 1, best)
    ELSE IF best = <<>> \/ tallies[i] <= best[1].tally
         THEN NENLoser(continuing, tallies, w, i + 1,
                       <<[loser |-> continuing[i], tally |-> tallies[i]]>>)
         ELSE NENLoser(continuing, tallies, w, i + 1, best)

\* find_best_difficulty without the sort of continuing: the assertion
\* keeps the order of pi
find_best_difficulty_keeping_order(vs, aud, continuing, w) ==
    LET tallies == restricted_tallies(vs, continuing)
        iw == CHOOSE i \in DOMAIN continuing :
                  continuing[i] = w /\ \A h \in DOMAIN continuing : continuing[h] = w => h <= i
        best == NENLoser(continuing, tallies, w, 1, <<>>)
    IN IF best = <<>> THEN <<>>
       ELSE <<AssertionAndDifficulty(
                  NEN(w, best[1].loser, continuing),
                  difficulty(aud, tallies[iw], best[1].tally, SumSeq(tallies)))>>

\* NotEliminatedNext::find_best_difficulty
find_best_difficulty(vs, aud, continuing, w) ==
    LET tallies == restricted_tallies(vs, continuing)
        iw == CHOOSE i \in DOMAIN continuing :
                  continuing[i] = w /\ \A h \in DOMAIN continuing : continuing[h] = w => h <= i
        best == NENLoser(continuing, tallies, w, 1, <<>>)
    IN IF best = <<>> THEN <<>>
       ELSE <<AssertionAndDifficulty(
                  NEN(w, best[1].loser, SortAscending(continuing)),
                  difficulty(aud, tallies[iw], best[1].tally, SumSeq(tallies)))>>

\* find_best_audit
find_best_audit(pi, vs, aud, cache, n) ==
    LET c == pi[1]
        dummy == AssertionAndDifficulty(NEB(c, c), Infinity)
        wo == find_best_assertion_using_cache(c, Tail(pi), cache, n)
        res1 == IF wo # <<>> /\ DLess(wo[1].difficulty, dummy.difficulty) THEN wo[1] ELSE dummy
        irv == find_best_difficulty(vs, aud, pi, c)
    IN IF irv # <<>> /\ DLess(irv[1].difficulty, res1.difficulty) THEN irv[1] ELSE res1

(***************************************************************************)
(* IRV winner finder (irv.rs).  IRVElectionWork is the record              *)
(* [memo, elimination_order, panicked]: memo is the HashMap                *)
(* winner_given_continuing_candidates as a set of [key, value] entries,    *)
(* panicked records Option::unwrap on the empty tallies' minimum.  A set   *)
(* of winners is collected from a HashSet into a Vec in no defined order:  *)
(* the model keeps it as the set.                                          *)
(***************************************************************************)
\* merged.sort_by_key(|(_,t)|t.0): stable insertion of one pair
RECURSIVE InsertByTally(_, _)
InsertByTally(sorted, x) ==
    IF Len(sorted) = 0 THEN <<x>>
    ELSE IF sorted[Len(sorted)].tally <= x.tally THEN Append(sorted, x)
    ELSE Append(InsertByTally(SubSeq(sorted, 1, Len(sorted) - 1), x), sorted[Len(sorted)])

RECURSIVE SortByTally(_, _)
SortByTally(merged, k) ==
    IF k = 0 THEN <<>> ELSE InsertByTally(SortByTally(merged, k - 1), merged[k])

\* the loop of find_bulk_elimination with >= in place of >: a tally equal
\* to the cumulative sum is taken to allow the bulk exclusion
RECURSIVE BulkLoopNotStrict(_, _, _)
BulkLoopNotStrict(merged, i, cumulative_sum) ==
    IF i > Len(merged) THEN [some |-> FALSE, bulk |-> <<>>]
    ELSE IF i > 2 /\ merged[i].tally >= cumulative_sum
         THEN [some |-> TRUE, bulk |-> [ j \in 1..(i - 1) |-> merged[j].candidate ]]
         ELSE BulkLoopNotStrict(merged, i + 1, cumulative_sum + merged[i].tally)

\* the loop of find_bulk_elimination over i, i - 1 being the index in merged
RECURSIVE BulkLoop(_, _, _)
BulkLoop(merged, i, cumulative_sum) ==
    IF i > Len(merged) THEN [some |-> FALSE, bulk |-> <<>>]
    ELSE IF i > 2 /\ merged[i].tally > cumulative_sum
         THEN [some |-> TRUE, bulk |-> [ j \in 1..(i - 1) |-> merged[j].candidate ]]
         ELSE BulkLoop(merged, i + 1, cumulative_sum + merged[i].tally)

\* IRVElectionWork::find_bulk_elimination
find_bulk_elimination(continuing, tallies) ==
    LET merged == [ i \in DOMAIN continuing |->
                      [candidate |-> continuing[i], tally |-> tallies[i]] ]
    IN BulkLoop(SortByTally(merged, Len(merged)), 1, 0)

\* the push made at every elimination, on the first depth-first path or not
PushAlways(work, continuing, c, n) ==
    [work EXCEPT !.elimination_order = Append(@, c)]

\* the push of the first depth-first path onto elimination_order
PushIfFirstPath(work, continuing, c, n) ==
    IF Len(work.elimination_order) + Len(continuing) = n
    THEN [work EXCEPT !.elimination_order = Append(@, c)]
    ELSE work

RECURSIVE find_all_possible_winners(_, _, _, _)
RECURSIVE TieLoop(_, _, _, _, _, _)

\* the loop over i of find_all_possible_winners; st is
\* [work, winners, already_tried_one_option, already_tried_bulk_elimination]
TieLoop(st, i, continuing, tallies, vs, n) ==
    IF i > Len(continuing) THEN st
    ELSE IF tallies[i] # MinSeq(tallies) THEN TieLoop(st, i + 1, continuing, tallies, vs, n)
    ELSE LET check_bulk == st.already_tried_one_option /\ ~st.already_tried_bulk_elimination
         IN IF check_bulk /\ find_bulk_elimination(continuing, tallies).some
            THEN st
            ELSE LET work1 == PushIfFirstPath(st.work, continuing, continuing[i], n)
                     res == find_all_possible_winners(work1, RemoveAt(continuing, i), vs, n)
                 IN TieLoop([work |-> res.work,
                             winners |-> st.winners \cup res.winners,
                             already_tried_one_option |-> TRUE,
                             already_tried_bulk_elimination |->
                                 st.already_tried_bulk_elimination \/ check_bulk],
                            i + 1, continuing, tallies, vs, n)

\* IRVElectionWork::find_all_possible_winners: [winners, work]
find_all_possible_winners(work, continuing, vs, n) ==
    IF Len(continuing) = 1
    THEN [winners |-> {continuing[1]},
          work |-> PushIfFirstPath(work, continuing, continuing[1], n)]
    ELSE IF \E m \in work.memo : m.key = continuing
    THEN [winners |-> (CHOOSE m \in work.memo : m.key = continuing).value, work |-> work]
    ELSE IF Len(continuing) = 0
    THEN [winners |-> {}, work |-> [work EXCEPT !.panicked = TRUE]]
    ELSE LET tallies == restricted_tallies(vs, continuing)
             st == TieLoop([work |-> work, winners |-> {},
                            already_tried_one_option |-> FALSE,
                            already_tried_bulk_elimination |-> FALSE],
                           1, continuing, tallies, vs, n)
         IN [winners |-> st.winners,
             work |-> [st.work EXCEPT !.memo = @ \cup {[key |-> continuing, value |-> st.winners]}]]

\* Votes::run_election: the IRVResult, and whether the call panicked
run_election(vs, n) ==
    LET res == find_all_possible_winners(
                   [memo |-> {}, elimination_order |-> <<>>, panicked |-> FALSE],
                   AllCandidates(n), vs, n)
    IN [possible_winners |-> res.winners,
        elimination_order |-> res.work.elimination_order,
        panicked |-> res.work.panicked]

(***************************************************************************)
(* RAIRE search (raire_algorithm.rs).  A SequenceAndEffort is the record   *)
(* [pi, best_assertion_for_ancestor, best_ancestor_length, dive_done],     *)
(* dive_done = -1 for None.  The locals of raire that the loop changes     *)
(* are threaded as st = [assertions, frontier, bound, err]; err is         *)
(* [kind, pi] with kind "none", "CouldNotRuleOut" or "Panic" (a failed     *)
(* assert_eq!).                                                            *)
(***************************************************************************)
NoError == [kind |-> "none", pi |-> <<>>]

NoDive == 0 - 1

SequenceAndEffort(pi, best_ancestor_length, best, dive_done) ==
    [pi |-> pi, best_assertion_for_ancestor |-> best,
     best_ancestor_length |-> best_ancestor_length, dive_done |-> dive_done]

\* SequenceAndEffort::difficulty
EffortDifficulty(e) == e.best_assertion_for_ancestor.difficulty

\* best_ancestor taken to be the last candidate of pi alone, whatever
\* best_ancestor_length is
best_ancestor_of_length_one(e) == SubSeq(e.pi, Len(e.pi), Len(e.pi))

\* SequenceAndEffort::best_ancestor
best_ancestor(e) == SubSeq(e.pi, Len(e.pi) - e.best_ancestor_length + 1, Len(e.pi))

\* extend_by_candidate taking the assertion of the new sequence whatever
\* the difficulty of the best ancestor
extend_forgetting_ancestor(e, c, vs, aud, cache, n) ==
    SequenceAndEffort(<<c>> \o e.pi, Len(e.pi) + 1,
                      find_best_audit(<<c>> \o e.pi, vs, aud, cache, n), NoDive)

\* extend_by_candidate putting the candidate at the end of pi
extend_at_end(e, c, vs, aud, cache, n) ==
    LET pi_prime == Append(e.pi, c)
        a == find_best_audit(pi_prime, vs, aud, cache, n)
    IN IF DLess(a.difficulty, EffortDifficulty(e))
       THEN SequenceAndEffort(pi_prime, Len(pi_prime), a, NoDive)
       ELSE SequenceAndEffort(pi_prime, e.best_ancestor_length,
                              e.best_assertion_for_ancestor, NoDive)

\* SequenceAndEffort::extend_by_candidate
extend_by_candidate(e, c, vs, aud, cache, n) ==
    LET pi_prime == <<c>> \o e.pi
        a == find_best_audit(pi_prime, vs, aud, cache, n)
    IN IF DLess(a.difficulty, EffortDifficulty(e))
       THEN SequenceAndEffort(pi_prime, Len(pi_prime), a, NoDive)
       ELSE SequenceAndEffort(pi_prime, e.best_ancestor_length,
                              e.best_assertion_for_ancestor, NoDive)

\* just_take_assertion without the test that the assertion is already there
just_take_assertion_again(e, st) ==
    [st EXCEPT
        !.frontier = { s \in st.frontier : ~EndsWith(s.pi, best_ancestor(e)) },
        !.assertions = Append(st.assertions, e.best_assertion_for_ancestor)]

\* SequenceAndEffort::just_take_assertion
just_take_assertion(e, st) ==
    IF \E i \in DOMAIN st.assertions :
           st.assertions[i].assertion = e.best_assertion_for_ancestor.assertion
    THEN st
    ELSE [st EXCEPT
            !.frontier = { s \in st.frontier : ~EndsWith(s.pi, best_ancestor(e)) },
            !.assertions = Append(st.assertions, e.best_assertion_for_ancestor)]

\* contains_all_candidates without the update of the lower bound
contains_all_candidates_keeping_bound(e, st) ==
    IF is_infinite(EffortDifficulty(e))
    THEN [st EXCEPT !.err = [kind |-> "CouldNotRuleOut", pi |-> e.pi]]
    ELSE just_take_assertion(e, st)

\* SequenceAndEffort::contains_all_candidates
contains_all_candidates(e, st) ==
    IF is_infinite(EffortDifficulty(e))
    THEN [st EXCEPT !.err = [kind |-> "CouldNotRuleOut", pi |-> e.pi]]
    ELSE just_take_assertion(e,
             IF DLess(st.bound, EffortDifficulty(e))
             THEN [st EXCEPT !.bound = EffortDifficulty(e)] ELSE st)

\* the population of F without the test c != winner
InitialFrontierOfAll(vs, aud, cache, n, w) ==
    { SequenceAndEffort(<<c>>, 1, find_best_audit(<<c>>, vs, aud, cache, n), NoDive) :
        c \in Candidates(n) }

\* the population of F with the single-candidate sequences
InitialFrontier(vs, aud, cache, n, w) ==
    { SequenceAndEffort(<<c>>, 1, find_best_audit(<<c>>, vs, aud, cache, n), NoDive) :
        c \in Candidates(n) \ {w} }

\* the dive is the loop over irv_result.elimination_order reversed; its
\* locals are d = [st, last, seq, stop]: last = <<>> for None, seq is
\* sequence_being_considered, stop records the break

\* match last.take(): the sequence that is extended, marked as dived
DiveFrom(d, c) ==
    IF d.last # <<>> THEN [d.last[1] EXCEPT !.dive_done = c]
    ELSE [d.seq EXCEPT !.dive_done = c]

\* sequence_being_considered after the match
DiveSeq(d, c) == IF d.last # <<>> THEN d.seq ELSE DiveFrom(d, c)

\* frontier.push(l) in the Some(l) arm
DivePush(d, c) ==
    IF d.last # <<>> THEN [d.st EXCEPT !.frontier = @ \cup {DiveFrom(d, c)}] ELSE d.st

\* if new_sequence.difficulty()<=bound { ...; break } else { last = Some(new_sequence) }
DiveTake(new_sequence, seq1, st1) ==
    IF DLeq(EffortDifficulty(new_sequence), st1.bound)
    THEN [st |-> just_take_assertion(new_sequence, st1),
          last |-> <<>>, seq |-> seq1, stop |-> TRUE]
    ELSE [st |-> st1, last |-> <<new_sequence>>, seq |-> seq1, stop |-> FALSE]

\* the body of the dive's for loop for candidate c
DiveStep(d, c, vs, aud, cache, n) ==
    IF Contains(d.seq.pi, c) THEN d
    ELSE DiveTake(extend_by_candidate(DiveFrom(d, c), c, vs, aud, cache, n),
                  DiveSeq(d, c), DivePush(d, c))

\* for &c in irv_result.elimination_order.iter().rev(), k the position of c
RECURSIVE DiveLoop(_, _, _, _, _, _, _)
DiveLoop(d, k, eo, vs, aud, cache, n) ==
    IF k = 0 \/ d.stop THEN d
    ELSE DiveLoop(DiveStep(d, eo[k], vs, aud, cache, n), k - 1, eo, vs, aud, cache, n)

\* the end of the dive forgetting the full-length sequence it ended with
DiveEndDroppingLast(d, n) == [st |-> d.st, seq |-> d.seq]

\* if let Some(last) = last: the full-length sequence the dive ended with
DiveEnd(d, n) ==
    IF d.last = <<>> THEN [st |-> d.st, seq |-> d.seq]
    ELSE IF Len(d.last[1].pi) # n
    THEN [st |-> [d.st EXCEPT !.err = [kind |-> "Panic", pi |-> <<>>]], seq |-> d.seq]
    ELSE [st |-> contains_all_candidates(d.last[1], d.st), seq |-> d.seq]

\* the whole USE_DIVING block: [st, seq]
Dive(st, seq, eo, vs, aud, cache, n) ==
    IF Len(eo) # n
    THEN [st |-> [st EXCEPT !.err = [kind |-> "Panic", pi |-> <<>>]], seq |-> seq]
    ELSE DiveEnd(DiveLoop([st |-> st, last |-> <<>>, seq |-> seq, stop |-> FALSE],
                          Len(eo), eo, vs, aud, cache, n), n)

\* the body of for each(c in C \ pi) for the extension new_sequence
ExpandTake(st, new_sequence, n) ==
    IF Len(new_sequence.pi) = n
    THEN contains_all_candidates(new_sequence, st)
    ELSE [st EXCEPT !.frontier = @ \cup {new_sequence}]

\* for each(c in C \ pi): the loop over c of the general expansion
RECURSIVE ExpandLoop(_, _, _, _, _, _, _)
ExpandLoop(st, seq, c, vs, aud, cache, n) ==
    IF c >= n \/ st.err.kind # "none" THEN st
    ELSE ExpandLoop(IF Contains(seq.pi, c) \/ seq.dive_done = c THEN st
                    ELSE ExpandTake(st, extend_by_candidate(seq, c, vs, aud, cache, n), n),
                    seq, c + 1, vs, aud, cache, n)

\* If true, use the diving search order optimization.
USE_DIVING == TRUE

\* the else branch of the loop body after the dive: dived is [st, seq]
Expand(dived, vs, aud, cache, n) == ExpandLoop(dived.st, dived.seq, 0, vs, aud, cache, n)

\* a loop body that takes the assertion of the popped entry whatever the
\* bound
LoopBodyTakingAlways(sequence_being_considered, st, eo, vs, aud, cache, n) ==
    just_take_assertion(sequence_being_considered, st)

\* a loop body that puts the popped entry back and does nothing else
LoopBodyPushingBack(sequence_being_considered, st, eo, vs, aud, cache, n) ==
    [st EXCEPT !.frontier = @ \cup {sequence_being_considered}]

\* the body of the while loop for a popped entry, st.frontier being the
\* frontier without it
LoopBody(sequence_being_considered, st, eo, vs, aud, cache, n) ==
    IF DLeq(EffortDifficulty(sequence_being_considered), st.bound)
    THEN just_take_assertion(sequence_being_considered, st)
    ELSE Expand(IF USE_DIVING /\ sequence_being_considered.dive_done = NoDive
                THEN Dive(st, sequence_being_considered, eo, vs, aud, cache, n)
                ELSE [st |-> st, seq |-> sequence_being_considered],
                vs, aud, cache, n)

\* a pop that returns any entry of the frontier, whatever its difficulty
PoppableInAnyOrder(F) == F

\* BinaryHeap::pop returns a greatest entry; which of several equal ones is
\* not specified
Poppable(F) == { e \in F : \A f \in F : DLeq(EffortDifficulty(f), EffortDifficulty(e)) }

(***************************************************************************)
(* Assertion trimmer (tree_showing_what_assertions_pruned_leaves.rs).      *)
(* A TreeNodeShowingWhatAssertionsPrunedIt is the record                   *)
(* [candidate_being_eliminated_at_this_node, pruning_assertions, children, *)
(* valid]; assertion indices are positions in the sorted assertion list.   *)
(***************************************************************************)
TrimAlgorithms == {"None", "MinimizeTree", "MinimizeAssertions"}

\* should_continue_if_pruning_assertion_found with StopOnNEB stopping at
\* every pruning assertion, as StopImmediately does
should_continue_only_forever(how_far, by_neb) ==
    IF how_far = "StopImmediately" THEN FALSE
    ELSE IF how_far = "StopOnNEB" THEN FALSE
    ELSE TRUE

\* HowFarToContinueSearchTreeWhenPruningAssertionFound::should_continue_if_pruning_assertion_found
should_continue_if_pruning_assertion_found(how_far, pruned_by_neb) ==
    IF how_far = "StopImmediately" THEN FALSE
    ELSE IF how_far = "StopOnNEB" THEN ~pruned_by_neb
    ELSE TRUE

\* HowFarToContinueSearchTreeWhenPruningAssertionFound::next_level_if_pruning_assertion_found
next_level_if_pruning_assertion_found(how_far) ==
    IF how_far = "ContinueOnce" THEN "StopImmediately" ELSE how_far

\* the match on ok_elimination_order_suffix over relevant_assertions: the
\* indices whose assertion has the given effect on the suffix
AssertionsWithEffect(relevant_assertions, all_assertions, elimination_order_suffix, effect) ==
    SelectSeq(relevant_assertions,
              LAMBDA i : ok_elimination_order_suffix(all_assertions[i],
                                                     elimination_order_suffix) = effect)

\* pruning_assertions.iter().any(|a|all_assertions[*a].is_neb())
pruned_by_neb(pruning_assertions, all_assertions) ==
    \E k \in DOMAIN pruning_assertions : all_assertions[pruning_assertions[k]].type = "NEB"

\* the condition under which TreeNode::new creates children
Descend(pruning_assertions, still_relevant_assertions, all_assertions, how_far) ==
    /\ \/ pruning_assertions = <<>>
       \/ should_continue_if_pruning_assertion_found(
              how_far, pruned_by_neb(pruning_assertions, all_assertions))
    /\ still_relevant_assertions # <<>>

\* next_consider_children_of_eliminated_nodes
NextHowFar(pruning_assertions, how_far) ==
    IF pruning_assertions = <<>> THEN how_far
    ELSE next_level_if_pruning_assertion_found(how_far)

\* the body of the loop over candidate for a created child; t is
\* [children, valid, stop], stop records the break
ChildStep(t, child, pruned) ==
    IF child.valid /\ pruned
    THEN [children |-> <<>>, valid |-> t.valid, stop |-> TRUE]
    ELSE [children |-> Append(t.children, child),
          valid |-> t.valid \/ child.valid, stop |-> FALSE]

RECURSIVE TreeNode(_, _, _, _, _, _)
RECURSIVE ChildLoop(_, _, _, _, _, _, _, _)

\* for candidate in 0..num_candidates, creating the children
ChildLoop(t, candidate, elimination_order_suffix, still_relevant, pruned, all_assertions, n, next_how_far) ==
    IF candidate >= n \/ t.stop THEN t
    ELSE ChildLoop(IF Contains(elimination_order_suffix, candidate) THEN t
                   ELSE ChildStep(t, TreeNode(elimination_order_suffix, candidate,
                                              still_relevant, all_assertions, n,
                                              next_how_far),
                                  pruned),
                   candidate + 1, elimination_order_suffix, still_relevant, pruned,
                   all_assertions, n, next_how_far)

\* the struct that TreeNode::new returns, t being [children, valid, stop]
NodeOf(candidate_being_eliminated_at_this_node, pruning_assertions, t) ==
    [candidate_being_eliminated_at_this_node |-> candidate_being_eliminated_at_this_node,
     pruning_assertions |-> pruning_assertions,
     children |-> t.children,
     valid |-> t.valid]

\* let mut children = vec![]; let mut valid = ...: the locals before the loop
NoChildren(pruning_assertions, still_relevant_assertions) ==
    [children |-> <<>>,
     valid |-> pruning_assertions = <<>> /\ still_relevant_assertions = <<>>,
     stop |-> FALSE]

\* TreeNode::new once pruning_assertions and still_relevant_assertions are known
NodeFrom(elimination_order_suffix, pruning_assertions, still_relevant_assertions, all_assertions, n, how_far) ==
    NodeOf(elimination_order_suffix[1], pruning_assertions,
           IF Descend(pruning_assertions, still_relevant_assertions, all_assertions, how_far)
           THEN ChildLoop(NoChildren(pruning_assertions, still_relevant_assertions), 0,
                          elimination_order_suffix, still_relevant_assertions,
                          pruning_assertions # <<>>, all_assertions, n,
                          NextHowFar(pruning_assertions, how_far))
           ELSE NoChildren(pruning_assertions, still_relevant_assertions))

\* TreeNodeShowingWhatAssertionsPrunedIt::new
TreeNode(parent_elimination_order_suffix, candidate_being_eliminated_at_this_node, relevant_assertions, all_assertions, n, how_far) ==
    NodeFrom(<<candidate_being_eliminated_at_this_node>> \o parent_elimination_order_suffix,
             AssertionsWithEffect(relevant_assertions, all_assertions,
                 <<candidate_being_eliminated_at_this_node>> \o parent_elimination_order_suffix,
                 "Contradiction"),
             AssertionsWithEffect(relevant_assertions, all_assertions,
                 <<candidate_being_eliminated_at_this_node>> \o parent_elimination_order_suffix,
                 "NeedsMoreDetail"),
             all_assertions, n, how_far)

\* the comparator of assertions.sort_unstable_by: a sorts before b
RECURSIVE ContinuingLess(_, _, _)
ContinuingLess(a, b, i) ==
    IF i > Len(a) THEN FALSE
    ELSE IF a[i] # b[i] THEN a[i] < b[i]
    ELSE ContinuingLess(a, b, i + 1)

AssertionLess(a, b) ==
    IF a.type = "NEN" /\ b.type = "NEB" THEN FALSE
    ELSE IF a.type = "NEB" /\ b.type = "NEN" THEN TRUE
    ELSE IF a.type = "NEN"
    THEN IF Len(a.continuing) # Len(b.continuing) THEN Len(a.continuing) < Len(b.continuing)
         ELSE IF a.winner # b.winner THEN a.winner < b.winner
         ELSE IF a.loser # b.loser THEN a.loser < b.loser
         ELSE ContinuingLess(a.continuing, b.continuing, 1)
    ELSE IF a.winner # b.winner THEN a.winner < b.winner
    ELSE a.loser < b.loser

RECURSIVE InsertAssertion(_, _)
InsertAssertion(sorted, x) ==
    IF Len(sorted) = 0 THEN <<x>>
    ELSE IF AssertionLess(x.assertion, sorted[Len(sorted)].assertion)
    THEN Append(InsertAssertion(SubSeq(sorted, 1, Len(sorted) - 1), x), sorted[Len(sorted)])
    ELSE Append(sorted, x)

RECURSIVE SortAssertions(_, _)
SortAssertions(as, k) ==
    IF k = 0 THEN <<>> ELSE InsertAssertion(SortAssertions(as, k - 1), as[k])

\* HeuristicWorkOutWhichAssertionsAreUsed: assertions_used as the set of the
\* indices that are true
RECURSIVE add_tree_forced(_, _)
RECURSIVE ForcedChildren(_, _, _)
ForcedChildren(used, children, k) ==
    IF k > Len(children) THEN used
    ELSE ForcedChildren(add_tree_forced(used, children[k]), children, k + 1)

add_tree_forced(used, node) ==
    IF Len(node.pruning_assertions) > 0
    THEN IF node.children = <<>> /\ Len(node.pruning_assertions) = 1
         THEN used \cup {node.pruning_assertions[1]}
         ELSE used
    ELSE ForcedChildren(used, node.children, 1)

RECURSIVE node_already_eliminated(_, _)
node_already_eliminated(used, node) ==
    \/ \E k \in DOMAIN node.pruning_assertions : node.pruning_assertions[k] \in used
    \/ /\ Len(node.children) # 0
       /\ \A k \in DOMAIN node.children : node_already_eliminated(used, node.children[k])

RECURSIVE add_tree_second_pass(_, _)
RECURSIVE SecondPassChildren(_, _, _)
SecondPassChildren(used, children, k) ==
    IF k > Len(children) THEN used
    ELSE SecondPassChildren(add_tree_second_pass(used, children[k]), children, k + 1)

add_tree_second_pass(used, node) ==
    IF Len(node.pruning_assertions) > 0
    THEN IF ~node_already_eliminated(used, node)
         THEN used \cup {node.pruning_assertions[1]}
         ELSE used
    ELSE SecondPassChildren(used, node.children, 1)

\* the consistency check of the winner's tree switched on
CHECK_WINNER_ENABLED == TRUE

\* computing the boundary for the winning candidate is not enabled
CHECK_WINNER_NOT_ELIMINATED == FALSE

\* the body of the first loop for a created tree; r is [err, used, trees]
TreesStep(r, candidate, tree, w) ==
    IF tree.valid # (candidate = w)
    THEN [r EXCEPT !.err = IF candidate = w THEN "InternalErrorRuledOutWinner"
                           ELSE "InternalErrorDidntRuleOutLoser"]
    ELSE IF candidate # w
    THEN [r EXCEPT !.used = add_tree_forced(r.used, tree),
                   !.trees = Append(r.trees, tree)]
    ELSE r

\* the first loop of order_assertions_and_remove_unnecessary: the trees and
\* the forced pass
RECURSIVE TreesLoop(_, _, _, _, _, _)
TreesLoop(r, candidate, all_assertions, w, n, how_far) ==
    IF candidate >= n \/ r.err # "none" THEN r
    ELSE TreesLoop(IF ~(candidate # w \/ CHECK_WINNER_NOT_ELIMINATED) THEN r
                   ELSE TreesStep(r, candidate,
                                  TreeNode(<<>>, candidate,
                                           [ i \in 1..Len(all_assertions) |-> i ],
                                           all_assertions, n, how_far),
                                  w),
                   candidate + 1, all_assertions, w, n, how_far)

\* the match on trim_algorithm in order_assertions_and_remove_unnecessary:
\* consider_children_of_eliminated_nodes, <<>> for None
consider_children_of_eliminated_nodes(trim) ==
    IF trim = "MinimizeTree" THEN <<"StopImmediately">>
    ELSE IF trim = "MinimizeAssertions" THEN <<"StopOnNEB">>
    ELSE <<>>

\* the match on trim_algorithm in raire: the argument of its call of
\* order_assertions_and_remove_unnecessary, <<>> where it makes no call
raire_how_far(trim) ==
    IF trim = "MinimizeTree" THEN <<"StopImmediately">>
    ELSE IF trim = "MinimizeAssertions" THEN <<"Forever">>
    ELSE <<>>

\* raire passes one of HowFarToContinueSearchTreeWhenPruningAssertionFound
\* where order_assertions_and_remove_unnecessary takes a TrimAlgorithm and
\* derives one; for MinimizeAssertions the two differ, and either may be
\* what the trimmer works with
HowFarOf(trim) == {consider_children_of_eliminated_nodes(trim), raire_how_far(trim)}

\* for (index,a) in assertions.drain(..).enumerate(): the assertions whose
\* index is used, in order
RECURSIVE UsedAssertions(_, _, _)
UsedAssertions(sorted, used, k) ==
    IF k = 0 THEN <<>>
    ELSE IF k \in used THEN Append(UsedAssertions(sorted, used, k - 1), sorted[k])
    ELSE UsedAssertions(sorted, used, k - 1)

\* the removal without the second pass: only the assertions the forced
\* pass has marked are kept
RemoveUnusedAfterForcedPass(sorted, r) ==
    IF r.err # "none" THEN [err |-> r.err, assertions |-> sorted]
    ELSE [err |-> "none", assertions |-> UsedAssertions(sorted, r.used, Len(sorted))]

\* the second pass and the removal, r being the outcome of the first loop
RemoveUnused(sorted, r) ==
    IF r.err # "none" THEN [err |-> r.err, assertions |-> sorted]
    ELSE [err |-> "none",
          assertions |-> UsedAssertions(sorted, SecondPassChildren(r.used, r.trees, 1),
                                        Len(sorted))]

\* order_assertions_and_remove_unnecessary after the sort, how_far being
\* consider_children_of_eliminated_nodes
TrimSorted(sorted, w, n, how_far) ==
    IF how_far = <<>> THEN [err |-> "none", assertions |-> sorted]
    ELSE RemoveUnused(sorted,
                      TreesLoop([err |-> "none", used |-> {}, trees |-> <<>>], 0,
                                [ i \in DOMAIN sorted |-> sorted[i].assertion ],
                                w, n, how_far[1]))

\* order_assertions_and_remove_unnecessary: [err, assertions]
order_assertions_and_remove_unnecessary(as, w, n, how_far) ==
    TrimSorted(SortAssertions(as, Len(as)), w, n, how_far)

(***************************************************************************)
(* The problems explored: every problem within the bounds whose vote       *)
(* records have distinct preference lists of distinct candidates, and the  *)
(* scenarios of the tests and of the documentation.                        *)
(***************************************************************************)
PrefsOfLen(n, k) ==
    { p \in [1..k -> Candidates(n)] : \A i, j \in 1..k : i # j => p[i] # p[j] }

Prefs(n) == UNION { PrefsOfLen(n, k) : k \in 1..MaxPrefLen }

\* a fixed order of preference lists, to list a set of vote records once
RECURSIVE PrefLess(_, _)
PrefLess(p, q) ==
    IF Len(p) # Len(q) THEN Len(p) < Len(q)
    ELSE IF Len(p) = 0 THEN FALSE
    ELSE IF p[1] # q[1] THEN p[1] < q[1]
    ELSE PrefLess(Tail(p), Tail(q))

RECURSIVE VotesOf(_, _)
VotesOf(S, cnt) ==
    IF S = {} THEN <<>>
    ELSE LET p == CHOOSE x \in S : \A y \in S \ {x} : PrefLess(x, y)
         IN <<[n |-> cnt[p], prefs |-> p]>> \o VotesOf(S \ {p}, cnt)

\* the subsets of S of at most k elements
RECURSIVE SubsetsUpTo(_, _)
SubsetsUpTo(S, k) ==
    IF k = 0 THEN {{}}
    ELSE SubsetsUpTo(S, k - 1) \cup { X \cup {x} : X \in SubsetsUpTo(S, k - 1), x \in S }

\* num_candidates and votes are a problem within the bounds
BoundedProblem(max_candidates, max_votes) ==
    \E n \in 0..max_candidates :
        \E S \in SubsetsUpTo(Prefs(n), max_votes) :
            \E cnt \in [S -> 1..MaxCount] :
                /\ num_candidates = n
                /\ votes = VotesOf(S, cnt)

Vote(n, prefs) == [n |-> n, prefs |-> prefs]

\* test_guide_to_raire_examples.rs get_votes: Example 10 of the Guide to RAIRE
GuideProblem ==
    [num_candidates |-> 4,
     votes |-> << Vote(5000, <<2, 1, 0>>), Vote(1000, <<1, 2, 3>>), Vote(1500, <<3, 0>>),
                  Vote(4000, <<0, 3>>), Vote(2000, <<3>>) >>]

\* scenario S3 of the specification
S3Problem ==
    [num_candidates |-> 3,
     votes |-> << Vote(5, <<0>>), Vote(5, <<1>>), Vote(1, <<2, 0>>) >>]

\* num_candidates and votes are one of the scenarios
ScenarioProblem ==
    \E prob \in {GuideProblem, S3Problem} :
        /\ num_candidates = prob.num_candidates
        /\ votes = prob.votes

NoSolution == [tag |-> "None"]

NoWinner == 0 - 1

Init ==
    /\ BoundedProblem(MaxCandidates, MaxVotes) \/ ScenarioProblem
    /\ audit = [type |-> "OneOnMargin", total_auditable_ballots |-> total_votes(votes)]
    /\ pc = "solve"
    /\ claimed_winner = NoWinner
    /\ irv_result = [possible_winners |-> {}, elimination_order |-> <<>>, panicked |-> FALSE]
    /\ neb_cache = <<>>
    /\ assertions = <<>>
    /\ bound = ZeroDifficulty
    /\ frontier = {}
    /\ trim_algorithm = "unset"
    /\ solution = NoSolution

(***************************************************************************)
(* RaireProblem::solve and raire, step by step.                            *)
(***************************************************************************)
ErrSolution(error, payload) == [tag |-> "Err", error |-> error, payload |-> payload]

Finish(sol) ==
    /\ pc' = "done"
    /\ solution' = sol

\* solve with a time limit that is not positive
SolveInvalidTimeout ==
    /\ pc = "solve"
    /\ \E time_limit_seconds \in {0 - 1, 0} : TRUE
    /\ Finish(ErrSolution("InvalidTimeout", <<>>))
    /\ UNCHANGED <<num_candidates, votes, audit, claimed_winner, irv_result, neb_cache,
                   assertions, bound, frontier, trim_algorithm>>

\* the checks of the winner without the check for a tie: the search goes
\* ahead with one of the tied winners
winner_error_ignoring_ties(winner, possible_winners) ==
    IF winner # NoWinner /\ winner \notin possible_winners THEN "WrongWinner"
    ELSE "none"

\* the checks of the winner with the check for a tie made first
winner_error_ties_first(winner, possible_winners) ==
    IF Cardinality(possible_winners) # 1 THEN "TiedWinners"
    ELSE IF winner # NoWinner /\ winner \notin possible_winners THEN "WrongWinner"
    ELSE "none"

\* the checks raire makes of the winner before the search: the error kind
\* it returns, "none" when the search goes ahead
winner_error(winner, possible_winners) ==
    IF winner # NoWinner /\ winner \notin possible_winners THEN "WrongWinner"
    ELSE IF Cardinality(possible_winners) # 1 THEN "TiedWinners"
    ELSE "none"

\* raire from the result of run_election up to the loop: the checks of the
\* winner, the NEB cache and the initial frontier
BeginSearch(w, res) ==
    /\ irv_result' = res
    /\ IF res.panicked
       THEN /\ Finish([tag |-> "Panic"])
            /\ UNCHANGED <<neb_cache, frontier>>
       ELSE IF winner_error(w, res.possible_winners) # "none"
       THEN /\ Finish(ErrSolution(winner_error(w, res.possible_winners),
                                  res.possible_winners))
            /\ UNCHANGED <<neb_cache, frontier>>
       ELSE /\ neb_cache' = NotEliminatedBeforeCache(votes, audit, num_candidates)
            /\ frontier' = InitialFrontier(votes, audit, neb_cache', num_candidates,
                                           CHOOSE c \in res.possible_winners : TRUE)
            /\ pc' = "search"
            /\ UNCHANGED solution

\* solve with a valid time limit calling raire with winner w (NoWinner for
\* None), up to the loop
RaireBegin(w) ==
    /\ pc = "solve"
    /\ claimed_winner' = w
    /\ BeginSearch(w, run_election(votes, num_candidates))
    /\ UNCHANGED <<num_candidates, votes, audit, assertions, bound, trim_algorithm>>

Winner == CHOOSE c \in irv_result.possible_winners : TRUE

\* the locals of raire after one iteration of the while loop; an Err
\* returned by ? or a failed assert_eq! ends the run
EndIteration(st) ==
    /\ assertions' = st.assertions
    /\ frontier' = st.frontier
    /\ bound' = st.bound
    /\ IF st.err.kind = "CouldNotRuleOut"
       THEN Finish(ErrSolution("CouldNotRuleOut", st.err.pi))
       ELSE IF st.err.kind = "Panic"
       THEN Finish([tag |-> "Panic"])
       ELSE UNCHANGED <<pc, solution>>

\* one iteration of the while loop
Pop(e) ==
    /\ pc = "search"
    /\ e \in Poppable(frontier)
    /\ EndIteration(LoopBody(e, [assertions |-> assertions, frontier |-> frontier \ {e},
                                 bound |-> bound, err |-> NoError],
                             irv_result.elimination_order, votes, audit, neb_cache,
                             num_candidates))
    /\ UNCHANGED <<num_candidates, votes, audit, claimed_winner, irv_result, neb_cache,
                   trim_algorithm>>

\* Ok(RaireResult{..}) or the Err of the trimming
EndRaire(r) ==
    /\ assertions' = r.assertions
    /\ IF r.err # "none"
       THEN Finish(ErrSolution(r.err, <<>>))
       ELSE Finish([tag |-> "Ok", assertions |-> r.assertions, difficulty |-> bound,
                    winner |-> Winner, num_candidates |-> num_candidates])

\* the end of the loop, the trimming and the result
Trim(trim, how_far) ==
    /\ pc = "search"
    /\ frontier = {}
    /\ trim_algorithm' = trim
    /\ EndRaire(IF trim = "None" THEN [err |-> "none", assertions |-> assertions]
                ELSE order_assertions_and_remove_unnecessary(
                         assertions, Winner, num_candidates, how_far))
    /\ UNCHANGED <<num_candidates, votes, audit, claimed_winner, irv_result, neb_cache,
                   bound, frontier>>

Next ==
    \/ SolveInvalidTimeout
    \/ \E w \in {NoWinner} \cup Candidates(num_candidates) : RaireBegin(w)
    \/ \E e \in frontier : Pop(e)
    \/ \E trim \in TrimAlgorithms : \E how_far \in HowFarOf(trim) : Trim(trim, how_far)

Spec == Init /\ [][Next]_vars

(***************************************************************************)
(* Votes::run_election on its own, for elections of up to                  *)
(* ElectionMaxCandidates candidates.                                       *)
(***************************************************************************)
ElectionInit ==
    /\ BoundedProblem(ElectionMaxCandidates, ElectionMaxVotes)
    /\ audit = [type |-> "OneOnMargin", total_auditable_ballots |-> total_votes(votes)]
    /\ pc = "election"
    /\ claimed_winner = NoWinner
    /\ irv_result = [possible_winners |-> {}, elimination_order |-> <<>>, panicked |-> FALSE]
    /\ neb_cache = <<>>
    /\ assertions = <<>>
    /\ bound = ZeroDifficulty
    /\ frontier = {}
    /\ trim_algorithm = "unset"
    /\ solution = NoSolution

\* let irv_result = votes.run_election();
RunElection ==
    /\ pc = "election"
    /\ irv_result' = run_election(votes, num_candidates)
    /\ pc' = "elected"
    /\ UNCHANGED <<num_candidates, votes, audit, claimed_winner, neb_cache, assertions,
                   bound, frontier, trim_algorithm, solution>>

ElectionNext == RunElection

ElectionSpec == ElectionInit /\ [][ElectionNext]_vars

(***************************************************************************)
(* solve from the raw votes of the problem: Votes::new comes first, and    *)
(* the votes may name the candidate num_candidates, who does not exist.    *)
(***************************************************************************)
IngestMaxCandidates == 2
IngestMaxVotes == 2

\* num_candidates and votes are a problem within the bounds whose
\* preference lists are over 0..num_candidates
RawProblem(max_candidates, max_votes) ==
    \E n \in 0..max_candidates :
        \E S \in SubsetsUpTo(Prefs(n + 1), max_votes) :
            \E cnt \in [S -> 1..MaxCount] :
                /\ num_candidates = n
                /\ votes = VotesOf(S, cnt)

IngestInit ==
    /\ RawProblem(IngestMaxCandidates, IngestMaxVotes)
    /\ audit = [type |-> "OneOnMargin", total_auditable_ballots |-> total_votes(votes)]
    /\ pc = "ingest"
    /\ claimed_winner = NoWinner
    /\ irv_result = [possible_winners |-> {}, elimination_order |-> <<>>, panicked |-> FALSE]
    /\ neb_cache = <<>>
    /\ assertions = <<>>
    /\ bound = ZeroDifficulty
    /\ frontier = {}
    /\ trim_algorithm = "unset"
    /\ solution = NoSolution

\* Votes::new: Err when the first preference of a vote is not a candidate
VotesNewRejects(vs, n) ==
    \E k \in DOMAIN vs : Len(vs[k].prefs) > 0 /\ vs[k].prefs[1] >= n

\* let votes = Votes::new(self.votes,self.num_candidates);
Ingest ==
    /\ pc = "ingest"
    /\ IF VotesNewRejects(votes, num_candidates)
       THEN Finish(ErrSolution("InvalidCandidateNumber", <<>>))
       ELSE pc' = "solve" /\ UNCHANGED solution
    /\ UNCHANGED <<num_candidates, votes, audit, claimed_winner, irv_result, neb_cache,
                   assertions, bound, frontier, trim_algorithm>>

IngestNext == Ingest \/ Next

IngestSpec == IngestInit /\ [][IngestNext]_vars

(***************************************************************************)
(* solve with a time limit that may run out while the assertions are       *)
(* trimmed.  The trimmer checks the timeout at every node it builds and    *)
(* at every node of the second pass, so it may give up at any point.       *)
(***************************************************************************)
TimeoutMaxVotes == 2

TimeoutInit ==
    /\ BoundedProblem(MaxCandidates, TimeoutMaxVotes)
    /\ audit = [type |-> "OneOnMargin", total_auditable_ballots |-> total_votes(votes)]
    /\ pc = "solve"
    /\ claimed_winner = NoWinner
    /\ irv_result = [possible_winners |-> {}, elimination_order |-> <<>>, panicked |-> FALSE]
    /\ neb_cache = <<>>
    /\ assertions = <<>>
    /\ bound = ZeroDifficulty
    /\ frontier = {}
    /\ trim_algorithm = "unset"
    /\ solution = NoSolution

\* a trimmer that has emptied the vector when the timeout is found
TrimmerTimedOutDroppingAll(as) ==
    [err |-> "TimeoutTrimmingAssertions", assertions |-> <<>>]

\* a trimmer that finds the timeout before it has sorted the vector
TrimmerTimedOutUnsorted(as) ==
    [err |-> "TimeoutTrimmingAssertions", assertions |-> as]

\* order_assertions_and_remove_unnecessary leaving by the ? of a timeout
\* check: the vector has been sorted and nothing has been drained from it
TrimmerTimedOut(as) ==
    [err |-> "TimeoutTrimmingAssertions", assertions |-> SortAssertions(as, Len(as))]

\* the end of the loop and a trimming that runs out of time: the checks of
\* the time are in TreeNode::new and add_tree_second_pass, which are called
\* only for the trees of the candidates other than the winner
TrimTimeout(trim) ==
    /\ pc = "search"
    /\ frontier = {}
    /\ trim # "None"
    /\ Candidates(num_candidates) \ {Winner} # {}
    /\ trim_algorithm' = trim
    /\ assertions' = TrimmerTimedOut(assertions).assertions
    /\ pc' = "trim_timed_out"
    /\ UNCHANGED <<num_candidates, votes, audit, claimed_winner, irv_result, neb_cache,
                   bound, frontier, solution>>

\* raire on Err(TimeoutTrimmingAssertions) from the trimmer: the error is
\* caught and replaced by a valid result with warning_trim_timed_out set
RecoverTrimTimeout ==
    /\ pc = "trim_timed_out"
    /\ Finish([tag |-> "Ok", assertions |-> assertions, difficulty |-> bound,
               winner |-> Winner, num_candidates |-> num_candidates,
               warning_trim_timed_out |-> TRUE])
    /\ UNCHANGED <<num_candidates, votes, audit, claimed_winner, irv_result, neb_cache,
                   assertions, bound, frontier, trim_algorithm>>

TimeoutNext ==
    \/ Next
    \/ \E trim \in TrimAlgorithms : TrimTimeout(trim)
    \/ RecoverTrimTimeout

TimeoutSpec == TimeoutInit /\ [][TimeoutNext]_vars

(***************************************************************************)
(* The trimmer called again on the assertions of a result it has trimmed.  *)
(***************************************************************************)
\* order_assertions_and_remove_unnecessary on solution.assertions; the
\* variable assertions keeps the vector as the first trimming left it
TrimAgain(trim, how_far) ==
    /\ pc = "done"
    /\ solution.tag = "Ok"
    /\ trim_algorithm # "None"
    /\ trim # "None"
    /\ LET r == order_assertions_and_remove_unnecessary(solution.assertions, solution.winner,
                                                        num_candidates, how_far)
       IN solution' = IF r.err # "none" THEN ErrSolution(r.err, <<>>)
                      ELSE [solution EXCEPT !.assertions = r.assertions]
    /\ pc' = "retrimmed"
    /\ UNCHANGED <<num_candidates, votes, audit, claimed_winner, irv_result, neb_cache,
                   assertions, bound, frontier, trim_algorithm>>

RetrimNext ==
    \/ Next
    \/ \E trim \in TrimAlgorithms : \E how_far \in HowFarOf(trim) : TrimAgain(trim, how_far)

RetrimSpec == Init /\ [][RetrimNext]_vars

(***************************************************************************)
(* solve under several audits of the same votes: OneOnMargin and           *)
(* OneOnMarginSq, for the number of votes and for one ballot more.         *)
(***************************************************************************)
MetricMaxVotes == 2

\* the margin audits of the given total_auditable_ballots
MarginAudits(total) ==
    { [type |-> "OneOnMargin", total_auditable_ballots |-> total],
      [type |-> "OneOnMarginSq", total_auditable_ballots |-> total] }

\* the audits a problem with these votes is solved under
MetricsOf(vs) == MarginAudits(total_votes(vs)) \cup MarginAudits(total_votes(vs) + 1)

MetricInit ==
    /\ BoundedProblem(MaxCandidates, MetricMaxVotes)
    /\ audit \in MetricsOf(votes)
    /\ pc = "solve"
    /\ claimed_winner = NoWinner
    /\ irv_result = [possible_winners |-> {}, elimination_order |-> <<>>, panicked |-> FALSE]
    /\ neb_cache = <<>>
    /\ assertions = <<>>
    /\ bound = ZeroDifficulty
    /\ frontier = {}
    /\ trim_algorithm = "unset"
    /\ solution = NoSolution

MetricSpec == MetricInit /\ [][Next]_vars

(***************************************************************************)
(* NotEliminatedBeforeCache::new on its own, under each of the four audit  *)
(* types: the difficulty function applied to the tallies of every pair of  *)
(* candidates, with a total_auditable_ballots that may be zero.            *)
(***************************************************************************)
AuditMaxVotes == 2   \* distinct vote records of a problem of AuditSpec

\* confidence: 0.05 of the audits of test_paper_examples.rs
TestConfidence == [num |-> 1, den |-> 20]

\* error_inflation_factor: 1.0 (parse_raire_csv.rs) and 1.1 (test_paper_examples.rs)
ErrorInflationFactors == { [num |-> 1, den |-> 1], [num |-> 11, den |-> 10] }

\* the values of the enum Audit with the given total_auditable_ballots
Audits(total) ==
    { [type |-> "BRAVO", confidence |-> TestConfidence, total_auditable_ballots |-> total],
      [type |-> "OneOnMargin", total_auditable_ballots |-> total],
      [type |-> "OneOnMarginSq", total_auditable_ballots |-> total] }
    \cup { [type |-> "MACRO", confidence |-> TestConfidence, error_inflation_factor |-> g,
            total_auditable_ballots |-> total] : g \in ErrorInflationFactors }

AuditInit ==
    /\ BoundedProblem(MaxCandidates, AuditMaxVotes)
    /\ \E total \in {0, total_votes(votes), total_votes(votes) + 1} : audit \in Audits(total)
    /\ pc = "audit"
    /\ claimed_winner = NoWinner
    /\ irv_result = [possible_winners |-> {}, elimination_order |-> <<>>, panicked |-> FALSE]
    /\ neb_cache = <<>>
    /\ assertions = <<>>
    /\ bound = ZeroDifficulty
    /\ frontier = {}
    /\ trim_algorithm = "unset"
    /\ solution = NoSolution

\* let neb_cache = NotEliminatedBeforeCache::new(votes,audit);
BuildCache ==
    /\ pc = "audit"
    /\ neb_cache' = NotEliminatedBeforeCache(votes, audit, num_candidates)
    /\ pc' = "cached"
    /\ UNCHANGED <<num_candidates, votes, audit, claimed_winner, irv_result, assertions,
                   bound, frontier, trim_algorithm, solution>>

AuditNext == BuildCache

AuditSpec == AuditInit /\ [][AuditNext]_vars

(***************************************************************************)
(* What a set of assertions implies (assertions.rs, raire_algorithm.rs).   *)
(***************************************************************************)
\* vv.insert(i,c), i counted from 0
InsertAt(v, i, c) == SubSeq(v, 1, i) \o <<c>> \o SubSeq(v, i + 1, Len(v))

\* all_elimination_orders: all num_candidates factorial orderings, as a set
RECURSIVE all_elimination_orders(_)
all_elimination_orders(n) ==
    IF n = 0 THEN {<<>>}
    ELSE { InsertAt(v[1], v[2], n - 1) :
             v \in { <<o, i>> \in all_elimination_orders(n - 1) \X (0..(n - 1)) : TRUE } }

\* RaireResult::possible_elimination_orders_allowed_by_assertions
possible_elimination_orders_allowed_by_assertions(as, n) ==
    { order \in all_elimination_orders(n) :
        \A i \in DOMAIN as : ok_elimination_order_suffix(as[i].assertion, order) = "Ok" }

\* the full elimination orders that some assertion of as contradicts
ContradictedOrders(as, n) ==
    { order \in all_elimination_orders(n) :
        \E i \in DOMAIN as :
            ok_elimination_order_suffix(as[i].assertion, order) = "Contradiction" }

\* raire or solve has returned Ok
ReturnedOk == pc = "done" /\ solution.tag = "Ok"

\* the greatest difficulty among the assertions as, which is not empty
MaxDifficulty(as) ==
    as[CHOOSE i \in DOMAIN as :
           \A j \in DOMAIN as : DLeq(as[j].difficulty, as[i].difficulty)].difficulty

(***************************************************************************)
(* A RaireResult in the hands of a caller, holding any well-formed         *)
(* assertions: the trimmer and verify_result_does_prove_winner are public  *)
(* and take whatever assertions they are given.                            *)
(***************************************************************************)
ResultMaxCandidates == 3   \* num_candidates of the result ranges over 1..ResultMaxCandidates
ResultMaxAssertions == 2   \* assertions of the result

\* the candidates of S in ascending order: a canonical continuing
RECURSIVE AscendingList(_)
AscendingList(S) ==
    IF S = {} THEN <<>>
    ELSE LET m == CHOOSE x \in S : \A y \in S : x <= y
         IN <<m>> \o AscendingList(S \ {m})

\* the assertions over n candidates: NEB with winner != loser, and NEN with
\* a sorted continuing that holds its winner and its loser, who differ
WellFormedAssertions(n) ==
    { a \in { NEB(w, l) : w \in Candidates(n), l \in Candidates(n) } : a.winner # a.loser }
    \cup UNION { { a \in { NEN(w, l, AscendingList(S)) : w \in S, l \in S } : a.winner # a.loser } :
                   S \in SUBSET Candidates(n) }

\* the difficulties the assertions of the result carry
ResultDifficulties == { [num |-> 1, den |-> 1], [num |-> 2, den |-> 1] }

\* the vectors of at most k assertions over n candidates, each with a difficulty
RECURSIVE AssertionLists(_, _)
AssertionLists(n, k) ==
    IF k = 0 THEN {<<>>}
    ELSE AssertionLists(n, k - 1)
         \cup { Append(as, AssertionAndDifficulty(a, d)) :
                  as \in { x \in AssertionLists(n, k - 1) : Len(x) = k - 1 },
                  a \in WellFormedAssertions(n), d \in ResultDifficulties }

\* RaireResult
RaireResult(as, d, w, n) ==
    [tag |-> "Ok", assertions |-> as, difficulty |-> d, winner |-> w, num_candidates |-> n]

ResultInit ==
    /\ \E n \in 1..ResultMaxCandidates :
          \E w \in Candidates(n) :
              \E as \in AssertionLists(n, ResultMaxAssertions) :
                  /\ num_candidates = n
                  /\ assertions = as
                  /\ bound = (IF as = <<>> THEN ZeroDifficulty ELSE MaxDifficulty(as))
                  /\ solution = RaireResult(as, bound, w, n)
    /\ votes = <<>>
    /\ audit = [type |-> "OneOnMargin", total_auditable_ballots |-> 0]
    /\ pc = "result"
    /\ claimed_winner = NoWinner
    /\ irv_result = [possible_winners |-> {}, elimination_order |-> <<>>, panicked |-> FALSE]
    /\ neb_cache = <<>>
    /\ frontier = {}
    /\ trim_algorithm = "unset"

\* order_assertions_and_remove_unnecessary on the assertions of the result;
\* the variable assertions keeps the vector as it was given
TrimResult(trim, how_far) ==
    /\ pc = "result"
    /\ trim_algorithm' = trim
    /\ LET r == order_assertions_and_remove_unnecessary(solution.assertions, solution.winner,
                                                        solution.num_candidates, how_far)
       IN solution' = IF r.err # "none" THEN ErrSolution(r.err, <<>>)
                      ELSE [solution EXCEPT !.assertions = r.assertions]
    /\ pc' = "trimmed"
    /\ UNCHANGED <<num_candidates, votes, audit, claimed_winner, irv_result, neb_cache,
                   assertions, bound, frontier>>

\* for candidate in 0..self.num_candidates of verify_result_does_prove_winner
RECURSIVE VerifyLoop(_, _, _, _)
VerifyLoop(candidate, all_assertions, w, n) ==
    IF candidate >= n THEN "none"
    ELSE IF TreeNode(<<>>, candidate, [ i \in 1..Len(all_assertions) |-> i ], all_assertions,
                     n, "StopImmediately").valid # (candidate = w)
    THEN (IF candidate = w THEN "InternalErrorRuledOutWinner"
          ELSE "InternalErrorDidntRuleOutLoser")
    ELSE VerifyLoop(candidate + 1, all_assertions, w, n)

\* RaireResult::verify_result_does_prove_winner: the error, "none" for Ok(())
verify_result_does_prove_winner(result) ==
    VerifyLoop(0, [ i \in DOMAIN result.assertions |-> result.assertions[i].assertion ],
               result.winner, result.num_candidates)

\* result.verify_result_does_prove_winner()
VerifyResult ==
    /\ pc = "result"
    /\ solution' = IF verify_result_does_prove_winner(solution) # "none"
                   THEN ErrSolution(verify_result_does_prove_winner(solution), <<>>)
                   ELSE solution
    /\ pc' = "verified"
    /\ UNCHANGED <<num_candidates, votes, audit, claimed_winner, irv_result, neb_cache,
                   assertions, bound, frontier, trim_algorithm>>

ResultNext ==
    \/ \E trim \in TrimAlgorithms : \E how_far \in HowFarOf(trim) : TrimResult(trim, how_far)
    \/ VerifyResult

ResultSpec == ResultInit /\ [][ResultNext]_vars

(***************************************************************************)
(* The contract of raire.                                                  *)
(***************************************************************************)
\* C1 (soundness): whenever raire returns Ok, under each of the trim
\* policies None, MinimizeTree and MinimizeAssertions, every full
\* elimination order whose last candidate is not the reported winner
\* receives Contradiction from at least one returned assertion.
Soundness ==
    ReturnedOk =>
        \A order \in all_elimination_orders(solution.num_candidates) :
            order[Len(order)] # solution.winner =>
                order \in ContradictedOrders(solution.assertions, solution.num_candidates)

\* an Ok result for four candidates from which MinimizeAssertions removed
\* an assertion of the search
SoundnessWitness ==
    /\ ReturnedOk
    /\ solution.num_candidates = 4
    /\ trim_algorithm = "MinimizeAssertions"
    /\ Len(solution.assertions) = 5
    /\ \E order \in all_elimination_orders(4) : order[4] # solution.winner

\* C2 (winner-safety): whenever raire returns Ok, at least one full
\* elimination order in which the reported winner is the last standing
\* receives Ok from every returned assertion.
WinnerSafety ==
    ReturnedOk =>
        \E order \in possible_elimination_orders_allowed_by_assertions(
                         solution.assertions, solution.num_candidates) :
            order[Len(order)] = solution.winner

\* an Ok result for three candidates with at least two assertions, an NEB
\* among them
WinnerSafetyWitness ==
    /\ ReturnedOk
    /\ solution.num_candidates = 3
    /\ Len(solution.assertions) >= 2
    /\ \E i \in DOMAIN solution.assertions : solution.assertions[i].assertion.type = "NEB"
    /\ \E i \in DOMAIN solution.assertions : solution.assertions[i].assertion.type = "NEN"

\* C3: in every Ok result that holds at least one assertion, the reported
\* difficulty equals the greatest difficulty of the assertions of the result,
\* also after the trimming has removed assertions.
DifficultyIsMaximum ==
    (ReturnedOk /\ solution.assertions # <<>>) =>
        DEq(solution.difficulty, MaxDifficulty(solution.assertions))

\* the Ok result for the example of the Guide under MinimizeAssertions: the
\* trimming has removed the assertion NEN 0 > 3 on {0, 3} that the search
\* had generated, and the assertions left differ in difficulty
DifficultyIsMaximumWitness ==
    /\ ReturnedOk
    /\ votes = GuideProblem.votes
    /\ trim_algorithm = "MinimizeAssertions"
    /\ solution.assertions # <<>>
    /\ \A i \in DOMAIN solution.assertions :
           solution.assertions[i].assertion # NEN(0, 3, <<0, 3>>)
    /\ \E i, j \in DOMAIN solution.assertions :
           DLess(solution.assertions[i].difficulty, solution.assertions[j].difficulty)

(***************************************************************************)
(* The IRV winner finder.                                                  *)
(***************************************************************************)
\* the positions in continuing of the candidates with the lowest tally
LowestTallied(continuing, vs) ==
    { i \in DOMAIN continuing :
        restricted_tallies(vs, continuing)[i] = MinSeq(restricted_tallies(vs, continuing)) }

\* the candidates that are the last standing under some resolution of every
\* lowest-tally tie, by exploring every tied elimination
RECURSIVE LastStanding(_, _)
LastStanding(continuing, vs) ==
    IF Len(continuing) = 1 THEN {continuing[1]}
    ELSE UNION { LastStanding(RemoveAt(continuing, i), vs) :
                   i \in LowestTallied(continuing, vs) }

\* raire has been called and has got past run_election without a panic
RaireBegun ==
    /\ \/ pc = "search"
       \/ pc = "done" /\ solution # ErrSolution("InvalidTimeout", <<>>)
    /\ ~irv_result.panicked

\* run_election has returned
Elected == (pc = "elected" /\ ~irv_result.panicked) \/ RaireBegun

\* C4: run_election returns as possible_winners exactly the candidates that
\* are the last standing under some resolution of every lowest-tally tie:
\* the memo on the continuing candidates and the bulk-elimination shortcut
\* neither add nor drop a winner.
PossibleWinnersExact ==
    Elected => irv_result.possible_winners = LastStanding(AllCandidates(num_candidates), votes)

\* an election of four candidates with a tie for the lowest tally in which
\* the first two tied candidates i and j can be eliminated in either order
\* (so the winners of the continuing set without both are taken from the
\* memo the second time) and in which, once a tied candidate c is
\* eliminated, a further tie is cut short by a bulk elimination
PossibleWinnersExactWitness ==
    /\ Elected
    /\ num_candidates = 4
    /\ ~find_bulk_elimination(AllCandidates(4), restricted_tallies(votes, AllCandidates(4))).some
    /\ \E i, j \in LowestTallied(AllCandidates(4), votes) :
          /\ i < j
          /\ j - 1 \in LowestTallied(RemoveAt(AllCandidates(4), i), votes)
          /\ i \in LowestTallied(RemoveAt(AllCandidates(4), j), votes)
    /\ \E c \in LowestTallied(AllCandidates(4), votes) :
          /\ Cardinality(LowestTallied(RemoveAt(AllCandidates(4), c), votes)) >= 2
          /\ find_bulk_elimination(
                 RemoveAt(AllCandidates(4), c),
                 restricted_tallies(votes, RemoveAt(AllCandidates(4), c))).some

(***************************************************************************)
(* The checks of the winner.                                               *)
(***************************************************************************)
\* the winner given to raire is not among the possible winners
WinnerDisagrees ==
    claimed_winner # NoWinner /\ claimed_winner \notin irv_result.possible_winners

\* C5: whenever the winner finder yields more than one possible winner and
\* no WrongWinner error applies, raire returns Err(TiedWinners) carrying all
\* the possible winners and generates no assertions.
TiedWinnersReported ==
    (RaireBegun /\ Cardinality(irv_result.possible_winners) > 1 /\ ~WinnerDisagrees) =>
        /\ pc = "done"
        /\ solution = ErrSolution("TiedWinners", irv_result.possible_winners)
        /\ assertions = <<>>
        /\ frontier = {}

\* raire has returned TiedWinners with three possible winners for a problem
\* that names one of them as the winner
TiedWinnersReportedWitness ==
    /\ pc = "done"
    /\ solution.tag = "Err"
    /\ solution.error = "TiedWinners"
    /\ Cardinality(solution.payload) = 3
    /\ claimed_winner \in solution.payload

\* C6: when the problem supplies a winner that is not among the possible
\* winners, solve returns Err(WrongWinner) listing the possible winners and
\* runs no assertion search; a supplied winner that is the only possible
\* winner never produces WrongWinner.
WrongWinnerReported ==
    /\ (RaireBegun /\ WinnerDisagrees) =>
          /\ pc = "done"
          /\ solution = ErrSolution("WrongWinner", irv_result.possible_winners)
          /\ neb_cache = <<>>
          /\ frontier = {}
          /\ assertions = <<>>
    /\ (RaireBegun /\ irv_result.possible_winners = {claimed_winner}) =>
          ~(solution.tag = "Err" /\ solution.error = "WrongWinner")

\* solve has returned WrongWinner for a supplied winner that is none of
\* several tied possible winners
WrongWinnerReportedWitness ==
    /\ pc = "done"
    /\ solution.tag = "Err"
    /\ solution.error = "WrongWinner"
    /\ Cardinality(solution.payload) >= 2
    /\ claimed_winner \in Candidates(num_candidates) \ solution.payload

\* scenario S3 is being solved
SolvingS3 ==
    num_candidates = S3Problem.num_candidates /\ votes = S3Problem.votes

\* C7 as stated: in scenario S3 the winner finder reports two possible
\* winners after a tie, and solving the problem yields
\* Err(TiedWinners([0,1])).
S3TiedWinners ==
    (SolvingS3 /\ RaireBegun /\ claimed_winner = NoWinner) =>
        /\ Cardinality(irv_result.possible_winners) = 2
        /\ pc = "done" => solution = ErrSolution("TiedWinners", {0, 1})

\* C7 as the code has it: in scenario S3 candidate 2 is eliminated with the
\* lowest tally 1, its vote passes to candidate 0, and 0 beats 1 by 6 to 5:
\* the winner finder reports the single possible winner 0 with elimination
\* order 2, 1, 0, no TiedWinners error is returned, and solving the problem
\* yields Ok with winner 0.
S3SingleWinner ==
    (SolvingS3 /\ RaireBegun) =>
        /\ irv_result.possible_winners = {0}
        /\ irv_result.elimination_order = <<2, 1, 0>>
        /\ restricted_tallies(votes, <<0, 1>>) = <<6, 5>>
        /\ ~(solution.tag = "Err" /\ solution.error = "TiedWinners")
        /\ (pc = "done" /\ claimed_winner = NoWinner) =>
               solution.tag = "Ok" /\ solution.winner = 0

\* scenario S3 solved without a supplied winner
S3SingleWinnerWitness ==
    /\ SolvingS3
    /\ pc = "done"
    /\ claimed_winner = NoWinner
    /\ solution.tag = "Ok"
    /\ Len(solution.assertions) > 0

(***************************************************************************)
(* Edge cases and the example of the Guide to RAIRE.                       *)
(***************************************************************************)
\* solve has returned from raire (the time limit was valid)
SolvedByRaire == pc = "done" /\ solution # ErrSolution("InvalidTimeout", <<>>)

\* C8: solving a problem with num_candidates = 0 and no votes returns
\* Err(InvalidNumberOfCandidates): it does not panic, run the winner finder
\* on an empty continuing set, or return Ok.
ZeroCandidatesRejected ==
    (num_candidates = 0 /\ votes = <<>> /\ SolvedByRaire) =>
        solution = ErrSolution("InvalidNumberOfCandidates", <<>>)

\* what the code does for num_candidates = 0: find_all_possible_winners
\* unwraps the minimum of the empty tallies and panics
ZeroCandidatesPanics ==
    /\ num_candidates = 0
    /\ votes = <<>>
    /\ pc = "done"
    /\ irv_result.panicked
    /\ solution = [tag |-> "Panic"]

\* C9: solving a problem with exactly one candidate returns Ok with winner
\* candidate 0, also when there are no votes at all: the frontier starts
\* empty, so the search ends at once with no assertions.
OneCandidateWins ==
    num_candidates = 1 =>
        /\ RaireBegun => irv_result.possible_winners = {0}
        /\ pc = "search" => frontier = {} /\ assertions = <<>>
        /\ SolvedByRaire =>
               /\ solution.tag = "Ok"
               /\ solution.winner = 0
               /\ solution.assertions = <<>>

\* one candidate and no votes, solved under MinimizeAssertions as in
\* test_one_candidates
OneCandidateWinsWitness ==
    /\ num_candidates = 1
    /\ votes = <<>>
    /\ claimed_winner = NoWinner
    /\ trim_algorithm = "MinimizeAssertions"
    /\ ReturnedOk
    /\ solution.winner = 0

\* the assertions A1..A6 of the documentation of TrimAlgorithm with their
\* difficulties (Alice 0, Bob 1, Chuan 2, Diego 3)
GuideA1 == AssertionAndDifficulty(NEN(0, 3, <<0, 3>>), [num |-> 3, den |-> 1])
GuideA2 == AssertionAndDifficulty(NEN(2, 0, <<0, 2>>), [num |-> 27, den |-> 1])
GuideA3 == AssertionAndDifficulty(NEN(0, 3, <<0, 2, 3>>), [num |-> 27, den |-> 1])
GuideA4 == AssertionAndDifficulty(NEN(2, 3, <<0, 2, 3>>), [num |-> 27, den |-> 5])
GuideA5 == AssertionAndDifficulty(NEN(0, 1, <<0, 1, 2, 3>>), [num |-> 9, den |-> 2])
GuideA6 == AssertionAndDifficulty(NEB(2, 1), [num |-> 27, den |-> 8])

\* the assertions as are exactly the assertions expected, with their
\* difficulties
ExactlyAssertions(as, expected) ==
    /\ Len(as) = Cardinality(expected)
    /\ \A x \in expected :
           \E i \in DOMAIN as :
               as[i].assertion = x.assertion /\ DEq(as[i].difficulty, x.difficulty)

\* the example of the Guide is being solved
SolvingGuide ==
    num_candidates = GuideProblem.num_candidates /\ votes = GuideProblem.votes

\* C10: for the example of the Guide (OneOnMargin with 13500 auditable
\* ballots) RAIRE reports winner 2 and difficulty 27 with the six
\* assertions A1..A6; MinimizeTree and None keep A1, MinimizeAssertions
\* removes A1.
GuideExample ==
    SolvingGuide =>
        /\ audit.total_auditable_ballots = 13500
        /\ RaireBegun => irv_result.possible_winners = {2}
        /\ (pc = "search" /\ frontier = {}) =>
               ExactlyAssertions(assertions,
                                 {GuideA1, GuideA2, GuideA3, GuideA4, GuideA5, GuideA6})
        /\ (SolvedByRaire /\ claimed_winner \in {NoWinner, 2}) =>
               /\ solution.tag = "Ok"
               /\ solution.winner = 2
               /\ DEq(solution.difficulty, [num |-> 27, den |-> 1])
               /\ trim_algorithm \in {"None", "MinimizeTree"} =>
                      ExactlyAssertions(solution.assertions,
                          {GuideA1, GuideA2, GuideA3, GuideA4, GuideA5, GuideA6})
               /\ trim_algorithm = "MinimizeAssertions" =>
                      ExactlyAssertions(solution.assertions,
                          {GuideA2, GuideA3, GuideA4, GuideA5, GuideA6})

\* the example of the Guide solved with winner 2 supplied, as in test_raire,
\* under MinimizeTree, the trim algorithm solve uses when none is given
GuideExampleWitness ==
    /\ SolvingGuide
    /\ claimed_winner = 2
    /\ trim_algorithm = "MinimizeTree"
    /\ ReturnedOk
    /\ Len(solution.assertions) = 6

(***************************************************************************)
(* The vote store.                                                         *)
(***************************************************************************)
\* the lists of distinct candidates among 0..n-1, in every order
RECURSIVE CandidateListsOfLen(_, _)
CandidateListsOfLen(n, k) ==
    IF k = 0 THEN {<<>>}
    ELSE UNION { { Append(s, c) : c \in Candidates(n) \ Range(s) } :
                   s \in CandidateListsOfLen(n, k - 1) }

CandidateLists(n) == UNION { CandidateListsOfLen(n, k) : k \in 0..n }

\* the vote with preferences prefs counts for candidate c among continuing:
\* c is the first of prefs that is in continuing
CountsFor(prefs, continuing, c) ==
    \E j \in DOMAIN prefs :
        /\ prefs[j] = c
        /\ Contains(continuing, c)
        /\ \A h \in 1..(j - 1) : ~Contains(continuing, prefs[h])

\* the sum of the multiplicities of the votes of vs that count for c
VotesCountingFor(vs, continuing, c) ==
    SumSeq([ k \in DOMAIN vs |-> IF CountsFor(vs[k].prefs, continuing, c) THEN vs[k].n ELSE 0 ])

\* C11: restricted_tallies(continuing) returns one count per element of
\* continuing, in the same order; each vote record adds its multiplicity n
\* to exactly the first candidate of its prefs that is in continuing, and to
\* nothing if none is; the counts sum to at most total_votes, and the empty
\* continuing list yields the empty result.
RestrictedTalliesCountFirstContinuing ==
    RaireBegun =>
        /\ restricted_tallies(votes, <<>>) = <<>>
        /\ \A continuing \in CandidateLists(num_candidates) :
              LET res == restricted_tallies(votes, continuing)
              IN /\ Len(res) = Len(continuing)
                 /\ \A i \in DOMAIN continuing :
                        res[i] = VotesCountingFor(votes, continuing, continuing[i])
                 /\ SumSeq(res) <= total_votes(votes)

\* an election run on three candidates in which, at some elimination, a
\* vote of multiplicity 2 passes from its first preference to its second,
\* still continuing, while another vote is left with no continuing candidate
RestrictedTalliesWitness ==
    /\ RaireBegun
    /\ num_candidates = 3
    /\ Len(irv_result.elimination_order) = 3
    /\ \E e \in 1..2 :
          LET continuing == SubSeq(irv_result.elimination_order, e + 1, 3)
          IN /\ \E k \in DOMAIN votes :
                    /\ votes[k].n = 2
                    /\ Len(votes[k].prefs) = 2
                    /\ votes[k].prefs[1] = irv_result.elimination_order[e]
                    /\ Contains(continuing, votes[k].prefs[2])
             /\ SumSeq(restricted_tallies(votes, continuing)) < total_votes(votes)

(***************************************************************************)
(* The audit difficulty of the pairs of the NEB cache.                     *)
(***************************************************************************)
\* the tallies NotEliminatedBefore::difficulty hands to the audit
TallyOfWinner(w) == first_preference_only_tally(votes, w)

TallyOfLoser(w, l) == restricted_tallies(votes, <<w, l>>)[2]

\* the cache holds the difficulty of every pair
CacheBuilt == pc = "cached"

\* an f64 that compares below f64::INFINITY
BelowInfinity(d) == d.den # 0 \/ (d.den = 0 /\ d.num < 0)

\* C12: under each of BRAVO, MACRO, OneOnMargin and OneOnMarginSq the
\* difficulty of winner tally w and loser tally l is infinity whenever
\* w <= l and below infinity whenever w > l.
InfiniteExactlyWhenNotAhead ==
    CacheBuilt =>
        \A w, l \in Candidates(num_candidates) :
            w # l =>
                /\ TallyOfWinner(w) <= TallyOfLoser(w, l) => neb_cache[w][l] = Infinity
                /\ TallyOfWinner(w) > TallyOfLoser(w, l) => BelowInfinity(neb_cache[w][l])

\* a BRAVO difficulty of a winner with votes against a loser with none is
\* in the cache, and it is NaN
BravoUnopposedIsNaN ==
    /\ CacheBuilt
    /\ audit.type = "BRAVO"
    /\ \E w, l \in Candidates(num_candidates) :
          /\ w # l
          /\ TallyOfWinner(w) > 0
          /\ TallyOfLoser(w, l) = 0
          /\ is_nan(neb_cache[w][l])

\* the computation of the difficulty of tallies w > l evaluates ln(0.0):
\* only BRAVO takes logarithms of tallies, of twos > 0 and of 2.0 - twos
TakesLnOfZero(aud, w, l) ==
    /\ aud.type = "BRAVO"
    /\ w > l
    /\ 2 * (w + l) - 2 * w = 0

\* the computation of the difficulty of tallies w > l divides by 0.0: the
\* margin w - l the three others divide by is positive, BRAVO divides by
\* total_auditable_ballots and by its denominator
DividesByZero(aud, w, l) ==
    /\ aud.type = "BRAVO"
    /\ w > l
    /\ \/ aud.total_auditable_ballots = 0
       \/ LET twos == [num |-> 2 * w, den |-> w + l]
              d == FDiv(WeightedLns(w, twos, l, [num |-> 2 * (w + l) - 2 * w, den |-> w + l]),
                        [num |-> Sgn(aud.total_auditable_ballots), den |-> 1])
          IN d.den # 0 /\ d.num = 0

\* C13: no difficulty computation takes the logarithm of zero or divides
\* by zero, whatever the tallies and the total (a loser without votes and
\* a total of zero included), and no difficulty is NaN or negative.
NoDegenerateArithmetic ==
    CacheBuilt =>
        \A w, l \in Candidates(num_candidates) :
            w # l =>
                /\ ~TakesLnOfZero(audit, TallyOfWinner(w), TallyOfLoser(w, l))
                /\ ~DividesByZero(audit, TallyOfWinner(w), TallyOfLoser(w, l))
                /\ ~is_nan(neb_cache[w][l])
                /\ neb_cache[w][l].num >= 0

\* the difficulty of a winner ahead of a loser without votes has taken the
\* logarithm of zero, and it is NaN
BravoLnOfZeroTaken ==
    /\ CacheBuilt
    /\ \E w, l \in Candidates(num_candidates) :
          /\ w # l
          /\ TakesLnOfZero(audit, TallyOfWinner(w), TallyOfLoser(w, l))
          /\ is_nan(neb_cache[w][l])

(***************************************************************************)
(* Votes that name a candidate who does not exist.                         *)
(***************************************************************************)
\* some vote names, at some position of prefs, an index >= num_candidates
MentionsNonExistentCandidate ==
    \E k \in DOMAIN votes : \E j \in DOMAIN votes[k].prefs : votes[k].prefs[j] >= num_candidates

\* C14: a problem in which a vote mentions a candidate who does not exist,
\* at any position of its preference list, is rejected at ingestion with
\* the error of the invalid candidate, before the winners are looked for
\* and before any search.
NonExistentCandidateRejected ==
    (MentionsNonExistentCandidate /\ pc # "ingest") =>
        /\ pc = "done"
        /\ solution = ErrSolution("InvalidCandidateNumber", <<>>)
        /\ irv_result.elimination_order = <<>>
        /\ frontier = {}

\* a problem with a vote whose second preference does not exist has been
\* solved, the result being Ok
LaterNonExistentPreferenceSolved ==
    /\ ReturnedOk
    /\ \E k \in DOMAIN votes :
          /\ Len(votes[k].prefs) = 2
          /\ votes[k].prefs[1] < num_candidates
          /\ votes[k].prefs[2] >= num_candidates

(***************************************************************************)
(* A timeout of the trimming.                                              *)
(***************************************************************************)
\* the sequences hold the same elements the same number of times
SameElements(a, b) ==
    /\ Len(a) = Len(b)
    /\ \A x \in Range(a) \cup Range(b) :
          Cardinality({ i \in DOMAIN a : a[i] = x }) = Cardinality({ i \in DOMAIN b : b[i] = x })

\* the result carries the warning of a trimming that timed out
WarnsTrimTimedOut(sol) ==
    /\ sol.tag = "Ok"
    /\ "warning_trim_timed_out" \in DOMAIN sol
    /\ sol.warning_trim_timed_out

CreatedAssertions ==
    { e.best_assertion_for_ancestor.assertion : e \in frontier }
    \cup { assertions[i].assertion : i \in DOMAIN assertions }
    \cup (IF solution.tag = "Ok"
          THEN { solution.assertions[i].assertion : i \in DOMAIN solution.assertions }
          ELSE {})

StrictlyAscending(s) == \A i \in 1..(Len(s) - 1) : s[i] < s[i + 1]

\* C16: every NEN assertion the search creates has its continuing list
\* strictly ascending, of at least two candidates, among them its winner
\* and its loser, who are different.
NENWellFormed ==
    \A a \in CreatedAssertions :
        a.type = "NEN" =>
            /\ StrictlyAscending(a.continuing)
            /\ Len(a.continuing) >= 2
            /\ Contains(a.continuing, a.winner)
            /\ Contains(a.continuing, a.loser)
            /\ a.winner # a.loser

\* a result holds an NEN assertion over three candidates whose winner is
\* not the lowest of them
NENWellFormedWitness ==
    /\ ReturnedOk
    /\ \E i \in DOMAIN solution.assertions :
          LET a == solution.assertions[i].assertion
          IN /\ a.type = "NEN"
             /\ Len(a.continuing) = 3
             /\ a.winner # a.continuing[1]

(***************************************************************************)
(* The result and the order in which the frontier is emptied.  Pop takes   *)
(* any of the entries of greatest difficulty, so the runs of one problem   *)
(* are its runs under every order of the heap among equal difficulties.    *)
(* What the runs must agree on is stated as a function of the problem      *)
(* alone.                                                                  *)
(***************************************************************************)
\* the elimination order suffixes of the full order o
SuffixesOf(o) == { SubSeq(o, k, Len(o)) : k \in 1..Len(o) }

\* the least element of a set of difficulties that is not empty
LeastDifficulty(D) == CHOOSE d \in D : \A d2 \in D : DLeq(d, d2)

GreatestDifficulty(D) == CHOOSE d \in D : \A d2 \in D : DLeq(d2, d)

\* the cheapest way to rule the order o out: the least difficulty of the
\* best assertions of its suffixes
CheapestRulingOut(o, aud) ==
    LeastDifficulty({ find_best_audit(s, votes, aud,
                                      NotEliminatedBeforeCache(votes, aud, num_candidates),
                                      num_candidates).difficulty : s \in SuffixesOf(o) })

\* the orders in which w does not win
OrdersToRuleOut(w) ==
    { o \in all_elimination_orders(num_candidates) : o[num_candidates] # w }

\* the difficulty any set of assertions of the search must reach: that of
\* the order that is the most expensive to rule out
RequiredDifficulty(w, aud) ==
    IF OrdersToRuleOut(w) = {} THEN ZeroDifficulty
    ELSE GreatestDifficulty({ CheapestRulingOut(o, aud) : o \in OrdersToRuleOut(w) })

\* raire has returned, having passed its checks of the winner
SearchRan ==
    /\ SolvedByRaire
    /\ ~irv_result.panicked
    /\ Len(irv_result.elimination_order) = num_candidates
    /\ winner_error(claimed_winner, irv_result.possible_winners) = "none"

\* raire has returned from its checks of the winner
WinnerRefused ==
    /\ SolvedByRaire
    /\ ~irv_result.panicked
    /\ Len(irv_result.elimination_order) = num_candidates
    /\ winner_error(claimed_winner, irv_result.possible_winners) # "none"

\* C17: the difficulty of the result, or the error, does not depend on
\* which of the frontier entries of equal difficulty is popped: whatever
\* the order, it is the difficulty the problem requires, and an error is
\* the one the problem determines.
DifficultyWhateverTheTieOrder ==
    /\ SearchRan =>
           IF is_infinite(RequiredDifficulty(Winner, audit))
           THEN solution.tag = "Err" /\ solution.error = "CouldNotRuleOut"
           ELSE /\ solution.tag = "Ok"
                /\ DEq(solution.difficulty, RequiredDifficulty(Winner, audit))
    /\ WinnerRefused =>
           solution = ErrSolution(winner_error(claimed_winner, irv_result.possible_winners),
                                  irv_result.possible_winners)

\* a result of a search whose first pop was a choice between two entries
\* of the same, greatest difficulty
FirstPopWasATie ==
    /\ ReturnedOk
    /\ DLess(ZeroDifficulty, solution.difficulty)
    /\ \E c1, c2 \in Candidates(num_candidates) \ {solution.winner} :
          /\ c1 # c2
          /\ DEq(find_best_audit(<<c1>>, votes, audit, neb_cache, num_candidates).difficulty,
                 find_best_audit(<<c2>>, votes, audit, neb_cache, num_candidates).difficulty)
          /\ \A c \in Candidates(num_candidates) \ {solution.winner} :
                DLeq(find_best_audit(<<c>>, votes, audit, neb_cache, num_candidates).difficulty,
                     find_best_audit(<<c1>>, votes, audit, neb_cache, num_candidates).difficulty)

\* the run of the while loop from the locals st in which the heap gives,
\* among its greatest entries, a fixed one
RECURSIVE SearchFrom(_)
SearchFrom(st) ==
    IF st.frontier = {} \/ st.err # NoError THEN st
    ELSE LET e == CHOOSE x \in Poppable(st.frontier) : TRUE
         IN SearchFrom(LoopBody(e, [st EXCEPT !.frontier = st.frontier \ {e}],
                                irv_result.elimination_order, votes, audit, neb_cache,
                                num_candidates))

\* the assertions that run emits for the problem
AssertionsOfFixedOrder ==
    SearchFrom([assertions |-> <<>>,
                frontier |-> InitialFrontier(votes, audit, neb_cache, num_candidates, Winner),
                bound |-> ZeroDifficulty, err |-> NoError]).assertions

\* the search has ended and the assertions are returned as they are
ReturnedUntrimmed == ReturnedOk /\ trim_algorithm = "None"

\* C18 as stated: the set of assertions emitted does not depend on which
\* of the frontier entries of equal difficulty is popped first; every run
\* emits the assertions of the run with the fixed order, up to their order.
AssertionSetWhateverTheTieOrder ==
    ReturnedUntrimmed => Range(solution.assertions) = Range(AssertionsOfFixedOrder)

\* C18: the runs of a problem that differ in the order of popping entries
\* of equal difficulty may emit different assertions, but every set
\* emitted, trimmed or not, contradicts every elimination order in which
\* the winner does not win, allows an order in which the winner wins, and
\* has the greatest difficulty the problem requires.
AssertionSetsEquivalentWhateverTheTieOrder ==
    ReturnedOk =>
        /\ OrdersToRuleOut(solution.winner)
               \subseteq ContradictedOrders(solution.assertions, num_candidates)
        /\ \E o \in all_elimination_orders(num_candidates) :
               /\ o[num_candidates] = solution.winner
               /\ o \notin ContradictedOrders(solution.assertions, num_candidates)
        /\ solution.assertions # <<>> =>
               DEq(MaxDifficulty(solution.assertions),
                   RequiredDifficulty(solution.winner, audit))

\* a run has emitted assertions that are not those of the run with the
\* fixed order
OtherAssertionsEmitted ==
    /\ ReturnedUntrimmed
    /\ Range(solution.assertions) # Range(AssertionsOfFixedOrder)
    /\ Len(solution.assertions) # Len(AssertionsOfFixedOrder)

(***************************************************************************)
(* Trimming what is already trimmed.                                       *)
(***************************************************************************)
Retrimmed == pc = "retrimmed"

\* C19: the trimmer (MinimizeTree or MinimizeAssertions) run on output it
\* has already trimmed succeeds, leaves the greatest difficulty of the
\* kept assertions as it was, and the kept assertions still contradict
\* every elimination order ending in a non-winner and still allow an
\* order ending in the winner.
TrimmingTwiceIsSafe ==
    Retrimmed =>
        /\ solution.tag = "Ok"
        /\ (assertions = <<>>) = (solution.assertions = <<>>)
        /\ assertions # <<>> =>
               DEq(MaxDifficulty(solution.assertions), MaxDifficulty(assertions))
        /\ \A o \in all_elimination_orders(num_candidates) :
               o[num_candidates] # solution.winner =>
                   o \in ContradictedOrders(solution.assertions, num_candidates)
        /\ \E o \in all_elimination_orders(num_candidates) :
               /\ o[num_candidates] = solution.winner
               /\ o \notin ContradictedOrders(solution.assertions, num_candidates)

\* a second trimming has removed an assertion the first had kept
SecondTrimRemovedMore ==
    /\ Retrimmed
    /\ solution.tag = "Ok"
    /\ Len(solution.assertions) < Len(assertions)


(***************************************************************************)
(* The difficulty found and the audit metric.                              *)
(***************************************************************************)
\* the metric m2 is at least the metric m1 at every pair of tallies up to
\* one more than their totals
Dominates(m2, m1) ==
    \A w, l \in 0..(m1.total_auditable_ballots + m2.total_auditable_ballots + 1) :
        DLeq(difficulty(m1, w, l, w + l), difficulty(m2, w, l, w + l))

\* C20: for the same votes, if the metric M2 is at least the metric M1 at
\* every (w, l, t), the difficulty found with M2 is at least the difficulty
\* found with M1, and M2 fails with CouldNotRuleOut whenever M1 does.  The
\* state is the end of a solve with M2; the solve with M1 ends, whatever
\* the pop order, with the difficulty the problem requires under M1.
DifficultyMonotoneInMetric ==
    SearchRan =>
        /\ solution.tag = "Ok" =>
               DEq(solution.difficulty, RequiredDifficulty(Winner, audit))
        /\ \A m1 \in MetricsOf(votes) :
               Dominates(audit, m1) =>
                   IF is_infinite(RequiredDifficulty(Winner, m1))
                   THEN solution.tag = "Err" /\ solution.error = "CouldNotRuleOut"
                   ELSE /\ solution.tag = "Ok"
                        /\ DLeq(RequiredDifficulty(Winner, m1), solution.difficulty)

\* a solve with a metric that is at least another has found a difficulty
\* strictly greater than the other requires, and that other is not zero
GreaterMetricGreaterDifficulty ==
    /\ SearchRan
    /\ solution.tag = "Ok"
    /\ \E m1 \in MetricsOf(votes) :
          /\ m1.type # audit.type
          /\ Dominates(audit, m1)
          /\ DLess(ZeroDifficulty, RequiredDifficulty(Winner, m1))
          /\ DLess(RequiredDifficulty(Winner, m1), solution.difficulty)

(***************************************************************************)
(* The elimination order that run_election returns.                        *)
(***************************************************************************)
\* run_election has returned for at least one candidate
ElectedSome == pc = "elected" /\ num_candidates >= 1

\* C21: the elimination_order of the result of run_election is a complete
\* elimination order: it has length exactly N, holds every candidate
\* exactly once, and its last element is one of possible_winners, for every
\* vote set and every N >= 1; so the length that raire asserts at the start
\* of a dive is the one it finds.
EliminationOrderComplete ==
    ElectedSome =>
        /\ ~irv_result.panicked
        /\ Len(irv_result.elimination_order) = num_candidates
        /\ Range(irv_result.elimination_order) = Candidates(num_candidates)
        /\ \A i, j \in DOMAIN irv_result.elimination_order :
               i # j => irv_result.elimination_order[i] # irv_result.elimination_order[j]
        /\ irv_result.elimination_order[num_candidates] \in irv_result.possible_winners

\* an election of four candidates in which ties left several possible
\* winners, so that several elimination orders were explored, and whose
\* reported order is not the order of the candidate indices
EliminationOrderCompleteWitness ==
    /\ ElectedSome
    /\ num_candidates = 4
    /\ Cardinality(irv_result.possible_winners) >= 2
    /\ Cardinality(LowestTallied(AllCandidates(4), votes)) >= 2
    /\ irv_result.elimination_order # AllCandidates(4)

(***************************************************************************)
(* The effect of an assertion on an elimination order suffix and on the    *)
(* suffixes that extend it.                                                *)
(***************************************************************************)
\* the assertions of the vector the caller gave
GivenAssertions == { assertions[i].assertion : i \in DOMAIN assertions }

\* the trimmer or the verification has run on the result
ResultUsed == pc \in {"trimmed", "verified"}

\* C22: the verdicts Contradiction and Ok of ok_elimination_order_suffix
\* are final under extension: for every assertion (NEB with winner # loser,
\* or canonical NEN) and every suffix pi of distinct candidates, if the
\* verdict on pi is Contradiction (respectively Ok), so is the verdict on
\* [c] ++ pi for every candidate c not in pi.
VerdictsFinalUnderExtension ==
    \A a \in GivenAssertions :
        \A pi \in CandidateLists(num_candidates) :
            \A c \in Candidates(num_candidates) \ Range(pi) :
                ok_elimination_order_suffix(a, pi) \in {"Contradiction", "Ok"} =>
                    ok_elimination_order_suffix(a, <<c>> \o pi)
                        = ok_elimination_order_suffix(a, pi)

\* the trimmer or the verification has worked with an NEN assertion on two
\* of three candidates and an NEB assertion; the NEN contradicts a suffix
\* of two candidates that a third extends, and is Ok for a suffix of one
\* candidate that two others extend; the NEB has both verdicts on suffixes
\* of one candidate
VerdictsFinalWitness ==
    /\ ResultUsed
    /\ num_candidates = 3
    /\ \E a \in GivenAssertions :
          /\ a.type = "NEN"
          /\ Len(a.continuing) = 2
          /\ \E pi \in CandidateListsOfLen(3, 2) :
                ok_elimination_order_suffix(a, pi) = "Contradiction"
          /\ \E pi \in CandidateListsOfLen(3, 1) : ok_elimination_order_suffix(a, pi) = "Ok"
    /\ \E a \in GivenAssertions :
          /\ a.type = "NEB"
          /\ \E pi \in CandidateListsOfLen(3, 1) :
                ok_elimination_order_suffix(a, pi) = "Contradiction"
          /\ \E pi \in CandidateListsOfLen(3, 1) : ok_elimination_order_suffix(a, pi) = "Ok"

\* the full elimination orders of n candidates that end with the suffix pi
CompletionsOf(pi, n) == { o \in all_elimination_orders(n) : EndsWith(o, pi) }

\* the verdicts of the assertion a on the full orders that end with pi
CompletionVerdicts(a, pi, n) ==
    { ok_elimination_order_suffix(a, o) : o \in CompletionsOf(pi, n) }

\* C23: whenever ok_elimination_order_suffix returns NeedsMoreDetail for a
\* suffix pi of distinct candidates, some full elimination orders ending
\* with pi are Ok for the assertion and others are contradicted by it; and
\* a full order of all the candidates never gets NeedsMoreDetail.
NeedsMoreDetailMeansBothCompletions ==
    \A a \in GivenAssertions :
        \A pi \in CandidateLists(num_candidates) :
            /\ ok_elimination_order_suffix(a, pi) = "NeedsMoreDetail" =>
                   /\ "Ok" \in CompletionVerdicts(a, pi, num_candidates)
                   /\ "Contradiction" \in CompletionVerdicts(a, pi, num_candidates)
            /\ Len(pi) = num_candidates =>
                   ok_elimination_order_suffix(a, pi) # "NeedsMoreDetail"

\* the trimmer or the verification has worked with an NEN assertion over
\* all the candidates that returns NeedsMoreDetail for a suffix holding
\* every candidate but its winner, whose only completion it contradicts
NeedsMoreDetailWithOneCompletion ==
    /\ ResultUsed
    /\ \E a \in GivenAssertions :
          /\ a.type = "NEN"
          /\ Len(a.continuing) = num_candidates
          /\ \E pi \in CandidateListsOfLen(num_candidates, num_candidates - 1) :
                /\ ~Contains(pi, a.winner)
                /\ ok_elimination_order_suffix(a, pi) = "NeedsMoreDetail"
                /\ CompletionVerdicts(a, pi, num_candidates) = {"Contradiction"}

(***************************************************************************)
(* The assertion find_best_audit returns for an elimination order suffix.  *)
(***************************************************************************)
\* raire has built the NEB cache, with which find_best_audit works
SearchBegun == neb_cache # <<>>

\* the assertion of find_best_audit for the suffix pi, with its difficulty
BestAuditOf(pi) == find_best_audit(pi, votes, audit, neb_cache, num_candidates)

\* C24: find_best_audit(pi) returns an assertion that eliminates every full
\* order ending in pi: whenever the difficulty returned is finite, the
\* effect of the assertion returned on pi is Contradiction; and so the best
\* assertion stored in a frontier entry gives Contradiction on the best
\* ancestor suffix of the entry and on its whole pi.
BestAuditContradicts ==
    SearchBegun =>
        /\ \A pi \in CandidateLists(num_candidates) \ {<<>>} :
               ~is_infinite(BestAuditOf(pi).difficulty) =>
                   ok_elimination_order_suffix(BestAuditOf(pi).assertion, pi) = "Contradiction"
        /\ \A e \in frontier :
               ~is_infinite(EffortDifficulty(e)) =>
                   /\ ok_elimination_order_suffix(e.best_assertion_for_ancestor.assertion,
                                                  best_ancestor(e)) = "Contradiction"
                   /\ ok_elimination_order_suffix(e.best_assertion_for_ancestor.assertion,
                                                  e.pi) = "Contradiction"

\* the frontier holds an entry of two or more candidates that keeps the
\* NEB assertion of a shorter ancestor and an entry whose assertion is an
\* NEN found for its whole pi, and for some suffix of two or more
\* candidates the best assertion is an NEB that its first candidate wins
\* against a candidate later in the suffix
BestAuditContradictsWitness ==
    /\ pc = "search"
    /\ \E e \in frontier :
          /\ Len(e.pi) >= 2
          /\ e.best_ancestor_length < Len(e.pi)
          /\ ~is_infinite(EffortDifficulty(e))
          /\ e.best_assertion_for_ancestor.assertion.type = "NEB"
    /\ \E e \in frontier :
          /\ e.best_ancestor_length = Len(e.pi)
          /\ ~is_infinite(EffortDifficulty(e))
          /\ e.best_assertion_for_ancestor.assertion.type = "NEN"
    /\ \E pi \in CandidateLists(num_candidates) \ {<<>>} :
          /\ Len(pi) >= 2
          /\ BestAuditOf(pi).assertion.type = "NEB"
          /\ BestAuditOf(pi).assertion.winner = pi[1]
          /\ ~is_infinite(BestAuditOf(pi).difficulty)

(***************************************************************************)
(* Which end of an elimination order suffix is which.                      *)
(***************************************************************************)
\* s.starts_with(prefix)
StartsWith(s, prefix) ==
    /\ Len(prefix) <= Len(s)
    /\ \A i \in 1..Len(prefix) : s[i] = prefix[i]

\* the candidates a frontier entry or a tree root is seeded with
Seeds == Candidates(num_candidates) \ {Winner}

\* the pruning assertions of the node and of the nodes below it contradict
\* the suffix of their node, made of the candidates of the path from the
\* root: with the root last (seed_last) or with the root first
RECURSIVE PruningContradicts(_, _, _, _)
PruningContradicts(node, parent_suffix, all_assertions, seed_last) ==
    LET suffix == IF seed_last
                  THEN <<node.candidate_being_eliminated_at_this_node>> \o parent_suffix
                  ELSE Append(parent_suffix, node.candidate_being_eliminated_at_this_node)
    IN /\ \A k \in DOMAIN node.pruning_assertions :
              ok_elimination_order_suffix(all_assertions[node.pruning_assertions[k]], suffix)
                  = "Contradiction"
       /\ \A k \in DOMAIN node.children :
              PruningContradicts(node.children[k], suffix, all_assertions, seed_last)

\* the trees the trimmer builds for the assertions as, one for each seed
TrimmerTrees(as, how_far) ==
    { TreeNode(<<>>, c, [ i \in 1..Len(as) |-> i ],
               [ i \in DOMAIN as |-> SortAssertions(as, Len(as))[i].assertion ],
               num_candidates, how_far) : c \in Seeds }

\* the pruning assertions of the trees of the trimmer contradict the
\* suffixes of their nodes
TreesContradict(as, how_far, seed_last) ==
    \A tree \in TrimmerTrees(as, how_far) :
        PruningContradicts(tree, <<>>,
                           [ i \in DOMAIN as |-> SortAssertions(as, Len(as))[i].assertion ],
                           seed_last)

\* a step of the loop of raire
SearchStep == pc = "search" /\ frontier' # frontier

\* the step in which the trimmer runs
TrimStep == pc = "search" /\ pc' = "done" /\ trim_algorithm' \in TrimAlgorithms \ {"None"}

LoopStep == pc = "search" /\ frontier # {}

\* the positions of the assertions the step has added to A
AddedInStep == (Len(assertions) + 1)..Len(assertions')

\* no assertion is twice in the vector
NoAssertionTwice(as) ==
    \A i, j \in DOMAIN as : i # j => as[i].assertion # as[j].assertion

\* between two points of an iteration at most one assertion has been
\* added to A, with a difficulty that is at most LB at the second point,
\* and LB has been raised only to the difficulty of that assertion: the
\* assertion was added under an LB it did not exceed
OneTakenWithinBound(before, after) ==
    /\ DLeq(before.bound, after.bound)
    /\ StartsWith(after.assertions, before.assertions)
    /\ Len(after.assertions) <= Len(before.assertions) + 1
    /\ \A i \in (Len(before.assertions) + 1)..Len(after.assertions) :
           DLeq(after.assertions[i].difficulty, after.bound)
    /\ DLess(before.bound, after.bound) =>
           /\ Len(after.assertions) = Len(before.assertions) + 1
           /\ DEq(after.assertions[Len(after.assertions)].difficulty, after.bound)

\* the locals of raire when the entry e has been popped
LocalsAfterPop(e) ==
    [assertions |-> assertions, frontier |-> frontier \ {e}, bound |-> bound, err |-> NoError]

\* the locals and the sequence after the dive of the iteration for e, if
\* it makes one
AfterDive(e) ==
    IF USE_DIVING /\ e.dive_done = NoDive
    THEN Dive(LocalsAfterPop(e), e, irv_result.elimination_order, votes, audit, neb_cache,
              num_candidates)
    ELSE [st |-> LocalsAfterPop(e), seq |-> e]

\* the locals after the general expansion has dealt with candidate c
AfterCandidate(st, seq, c) ==
    IF Contains(seq.pi, c) \/ seq.dive_done = c THEN st
    ELSE ExpandTake(st, extend_by_candidate(seq, c, votes, audit, neb_cache, num_candidates),
                    num_candidates)

\* every candidate of the general expansion from c on is dealt with by
\* taking at most one assertion, within the bound
RECURSIVE ExpansionTakesWithinBound(_, _, _)
ExpansionTakesWithinBound(st, seq, c) ==
    IF c >= num_candidates \/ st.err.kind # "none" THEN TRUE
    ELSE /\ OneTakenWithinBound(st, AfterCandidate(st, seq, c))
         /\ ExpansionTakesWithinBound(AfterCandidate(st, seq, c), seq, c + 1)

\* the iteration for the popped entry e takes every assertion within the
\* bound of the moment: at the pop, in the dive (which takes at most one)
\* and for each candidate of the general expansion
IterationTakesWithinBound(e) ==
    IF DLeq(EffortDifficulty(e), bound)
    THEN OneTakenWithinBound(LocalsAfterPop(e), just_take_assertion(e, LocalsAfterPop(e)))
    ELSE /\ OneTakenWithinBound(LocalsAfterPop(e), AfterDive(e).st)
         /\ ExpansionTakesWithinBound(AfterDive(e).st, AfterDive(e).seq, 0)

\* C26: at every point of the search LB bounds the assertions taken: LB
\* never decreases, and every assertion is added to A with a difficulty
\* that is at most LB at the moment it is added, the handler of a
\* full-length entry raising LB to the difficulty of the entry before it
\* takes the assertion; A never holds the same assertion twice and nothing
\* is removed from A before the trimming.
LowerBoundBoundsTaken ==
    [][ /\ pc = "search" =>
               /\ \A i \in DOMAIN assertions : DLeq(assertions[i].difficulty, bound)
               /\ NoAssertionTwice(assertions)
               /\ \A e \in Poppable(frontier) : IterationTakesWithinBound(e)
        /\ LoopStep =>
               /\ DLeq(bound, bound')
               /\ StartsWith(assertions', assertions)
               /\ \A i \in AddedInStep : DLeq(assertions'[i].difficulty, bound')
               /\ DLess(bound, bound') =>
                      \E i \in AddedInStep : DEq(assertions'[i].difficulty, bound')
               /\ NoAssertionTwice(assertions') ]_vars

\* the search goes on with a lower bound that has been raised, A holding an
\* assertion of that difficulty and an assertion of a lesser one
LowerBoundRaisedWitness ==
    /\ LoopStep
    /\ DLess(ZeroDifficulty, bound)
    /\ \E i, j \in DOMAIN assertions :
          /\ DEq(assertions[i].difficulty, bound)
          /\ DLess(assertions[j].difficulty, bound)

\* ---------------------------------------------------------------------
\* Best-first order of the pops
\* ---------------------------------------------------------------------

\* the entries the iteration has put into the frontier
PushedInStep == frontier' \ frontier

\* C27: the entries the main loop pops have non-increasing difficulties:
\* the entry popped has the greatest difficulty of the frontier, every
\* entry an iteration pushes (the nodes of the dive and the children of
\* the general expansion) has a difficulty that is at most the difficulty
\* of the entry popped, and so every entry that can be popped next has a
\* difficulty that is at most that of the entry just popped.
PopsNonIncreasing ==
    [][ LoopStep =>
            \A popped \in Poppable(frontier) :
                /\ \A f \in frontier : DLeq(EffortDifficulty(f), EffortDifficulty(popped))
                /\ \A e \in PushedInStep : DLeq(EffortDifficulty(e), EffortDifficulty(popped))
                /\ \A next \in Poppable(frontier') :
                       DLeq(EffortDifficulty(next), EffortDifficulty(popped)) ]_vars

\* the entry to be popped is a child that an iteration has pushed, of a
\* difficulty below that of the entry its seed was popped with
PopsDecreasedWitness ==
    /\ LoopStep
    /\ \E e \in Poppable(frontier) :
          /\ Len(e.pi) >= 2
          /\ DLess(EffortDifficulty(e), BestAuditOf(<<e.pi[Len(e.pi)]>>).difficulty)

\* ---------------------------------------------------------------------
\* Termination of the main loop
\* ---------------------------------------------------------------------

\* the first step of solve: the refusal of the time limit or the call of
\* raire up to the loop
SolveStep == SolveInvalidTimeout \/ \E w \in {NoWinner} \cup Candidates(num_candidates) : RaireBegin(w)

\* a step of raire from the loop on: an iteration, or the end of the loop
\* with the trimming and the result
RaireStep == (\E e \in frontier : Pop(e)) \/ \E trim \in TrimAlgorithms : \E how_far \in HowFarOf(trim) : Trim(trim, how_far)

\* the iteration for the entry e changes the locals of raire or ends the
\* run
IterationChangesState(e) ==
    \/ LoopBody(e, LocalsAfterPop(e), irv_result.elimination_order, votes, audit, neb_cache,
                num_candidates).err.kind # "none"
    \/ LoopBody(e, LocalsAfterPop(e), irv_result.elimination_order, votes, audit, neb_cache,
                num_candidates) # [LocalsAfterPop(e) EXCEPT !.frontier = frontier]

\* ENABLED <<RaireStep>>_vars, computed from the guards of Pop and Trim:
\* the loop has an entry to pop whose iteration changes the state, or the
\* frontier is empty and the trimming ends the run
RaireStepEnabled ==
    /\ pc = "search"
    /\ frontier = {} \/ \E e \in Poppable(frontier) : IterationChangesState(e)

\* solve is a sequential program: whenever it has a next step it takes it.
\* The fairness of the steps of raire is WF_vars(RaireStep) written out
\* by the definition of WF, with ENABLED <<RaireStep>>_vars replaced by
\* the state predicate it equals.
FairSpec ==
    /\ Init
    /\ [][Next]_vars
    /\ WF_vars(SolveStep)
    /\ []<>(~RaireStepEnabled) \/ []<><<RaireStep>>_vars

\* the elements of pi are candidates, each at most once
DistinctCandidates(pi) ==
    /\ \A i \in DOMAIN pi : pi[i] \in Candidates(num_candidates)
    /\ \A i, j \in DOMAIN pi : i # j => pi[i] # pi[j]

\* 1 <= best_ancestor_length <= |pi| < N, pi of distinct candidates
FrontierEntryInRange(e) ==
    /\ 1 <= e.best_ancestor_length
    /\ e.best_ancestor_length <= Len(e.pi)
    /\ Len(e.pi) < num_candidates
    /\ DistinctCandidates(e.pi)

\* the run has stopped with CouldNotRuleOut
StoppedCouldNotRuleOut ==
    /\ pc = "done"
    /\ solution.tag = "Err"
    /\ solution.error = "CouldNotRuleOut"

\* C28: the main loop terminates: a search that has begun (the election
\* has one winner, N >= 1) reaches, after finitely many pops, an empty
\* frontier, from which the result is returned, or stops with
\* CouldNotRuleOut for an elimination order of all N candidates none of
\* whose suffixes has an assertion of finite difficulty; and every entry
\* of the frontier has 1 <= best_ancestor_length <= |pi| < N, pi being
\* made of distinct candidates. In every state of the search raire has a
\* step to take, and it is fairness towards these steps alone that the
\* termination rests on.
SearchTerminates ==
    /\ [](\A e \in frontier : FrontierEntryInRange(e))
    /\ [](pc = "search" => RaireStepEnabled)
    /\ [](StoppedCouldNotRuleOut =>
              /\ Len(solution.payload) = num_candidates
              /\ DistinctCandidates(solution.payload)
              /\ \A k \in DOMAIN solution.payload :
                     is_infinite(BestAuditOf(SubSeq(solution.payload, k,
                                                    num_candidates)).difficulty))
    /\ (pc = "search") ~> ((pc = "search" /\ frontier = {}) \/ StoppedCouldNotRuleOut)
    /\ (pc = "search" /\ frontier = {}) ~> (pc = "done" /\ ~StoppedCouldNotRuleOut)

\* the frontier of a search among three candidates or more is empty after
\* several assertions have been taken
SearchTerminatedWitness ==
    /\ pc = "search"
    /\ frontier = {}
    /\ num_candidates >= 3
    /\ Len(assertions) >= 3

\* ---------------------------------------------------------------------
\* The internal errors of the trimming
\* ---------------------------------------------------------------------

\* the root of the pruning tree of candidate c for the given assertions is
\* valid: some elimination order in which c wins is not contradicted
RootValid(c) ==
    TreeNode(<<>>, c, [ i \in 1..Len(assertions) |-> i ],
             [ i \in DOMAIN assertions |-> assertions[i].assertion ],
             num_candidates, "StopImmediately").valid

\* the root of some candidate other than w is valid
SomeLoserRootValid(w) == \E c \in Candidates(num_candidates) \ {w} : RootValid(c)

\* a call of the trimmer with MinimizeTree or MinimizeAssertions
TrimmingStep == pc = "result" /\ pc' = "trimmed" /\ trim_algorithm' # "None"

\* a call of the trimmer with TrimAlgorithm::None
NotTrimmingStep == pc = "result" /\ pc' = "trimmed" /\ trim_algorithm' = "None"

\* a call of verify_result_does_prove_winner
VerifyStep == pc = "result" /\ pc' = "verified"

\* C29 as stated: when the assertions handed to the trimmer rule out the
\* announced winner (the root of the winner's tree is not valid) the
\* trimming fails with InternalErrorRuledOutWinner, and when the root of
\* some non-winner is valid it fails with InternalErrorDidntRuleOutLoser.
RuledOutWinnerFailsTrimming ==
    [][ TrimmingStep =>
            /\ (~RootValid(solution.winner) /\ ~SomeLoserRootValid(solution.winner)) =>
                   solution' = ErrSolution("InternalErrorRuledOutWinner", <<>>)
            /\ SomeLoserRootValid(solution.winner) =>
                   solution' = ErrSolution("InternalErrorDidntRuleOutLoser", <<>>) ]_vars

\* C29 amended: the trimming does not build the tree of the announced
\* winner, so assertions that rule the winner out are not detected by it:
\* with MinimizeTree or MinimizeAssertions it fails with
\* InternalErrorDidntRuleOutLoser exactly when the root of some non-winner
\* is valid and otherwise returns a trimmed list, whether or not the root
\* of the winner is valid; with TrimAlgorithm::None it returns the sorted
\* list without any check. InternalErrorRuledOutWinner comes only from
\* verify_result_does_prove_winner, which returns it when the root of the
\* winner is not valid and no root of a candidate of a lower index is
\* valid, returns InternalErrorDidntRuleOutLoser otherwise when some root
\* of a non-winner is valid, and Ok otherwise.
TrimmingIgnoresTheWinnersTree ==
    [][ /\ TrimmingStep =>
               IF SomeLoserRootValid(solution.winner)
               THEN solution' = ErrSolution("InternalErrorDidntRuleOutLoser", <<>>)
               ELSE /\ solution'.tag = "Ok"
                    /\ \A i \in DOMAIN solution'.assertions :
                           \E j \in DOMAIN assertions : solution'.assertions[i] = assertions[j]
        /\ NotTrimmingStep =>
               /\ solution'.tag = "Ok"
               /\ solution'.assertions = SortAssertions(assertions, Len(assertions))
        /\ VerifyStep =>
               IF /\ ~RootValid(solution.winner)
                  /\ \A c \in Candidates(num_candidates) : c < solution.winner => ~RootValid(c)
               THEN solution' = ErrSolution("InternalErrorRuledOutWinner", <<>>)
               ELSE IF SomeLoserRootValid(solution.winner)
               THEN solution' = ErrSolution("InternalErrorDidntRuleOutLoser", <<>>)
               ELSE solution' = solution ]_vars

\* the trimmer has returned a trimmed list for assertions that rule out
\* the winner of the result: the root of the winner's tree is not valid
TrimmedThoughWinnerRuledOut ==
    /\ pc = "trimmed"
    /\ trim_algorithm # "None"
    /\ solution.tag = "Ok"
    /\ assertions # <<>>
    /\ ~RootValid(solution.winner)

\* ---------------------------------------------------------------------
\* The assertions array after a timeout of the trimming
\* ---------------------------------------------------------------------

\* s is at most t in the lexicographic order of sequences of numbers
RECURSIVE LexLeq(_, _)
LexLeq(s, t) ==
    IF s = <<>> THEN TRUE
    ELSE IF t = <<>> THEN FALSE
    ELSE IF s[1] # t[1] THEN s[1] < t[1]
    ELSE LexLeq(Tail(s), Tail(t))

\* the canonical order: NEBs before NENs; NEBs by winner, then loser;
\* NENs by the length of continuing, then winner, then loser, then
\* continuing
CanonicalKey(a) ==
    IF a.type = "NEB" THEN <<0, a.winner, a.loser>>
    ELSE <<1, Len(a.continuing), a.winner, a.loser>> \o a.continuing

CanonicallySorted(as) ==
    \A i, j \in DOMAIN as :
        i < j => LexLeq(CanonicalKey(as[i].assertion), CanonicalKey(as[j].assertion))

\* the number of times x is an element of the sequence as
Occurrences(as, x) == Cardinality({ i \in DOMAIN as : as[i] = x })

\* the two arrays hold the same assertions with the same difficulties, each
\* as many times
SameAssertionsAndDifficulties(as, bs) ==
    /\ Len(as) = Len(bs)
    /\ \A i \in DOMAIN bs : Occurrences(as, bs[i]) = Occurrences(bs, bs[i])

\* order_assertions_and_remove_unnecessary returns a timeout error
TimedOutStep == pc = "search" /\ pc' = "trim_timed_out"

\* C30: if order_assertions_and_remove_unnecessary returns a timeout
\* error, wherever in the building of the trees or in the second pass the
\* time has run out, the assertions array is afterwards sorted canonically
\* (NEBs before NENs; NENs by the length of continuing, then winner, then
\* loser, then continuing; NEBs by winner, then loser) and otherwise
\* unchanged: it holds the same assertions with the same difficulties as
\* at the call, none dropped.
TimeoutLeavesArraySorted ==
    [][ TimedOutStep =>
            /\ CanonicallySorted(assertions')
            /\ SameAssertionsAndDifficulties(assertions', assertions) ]_vars

\* the trimmer has timed out on an array of three assertions or more,
\* a NEB and a NEN among them
TimeoutLeavesArraySortedWitness ==
    /\ pc = "trim_timed_out"
    /\ Len(assertions) >= 3
    /\ \E i, j \in DOMAIN assertions :
          /\ assertions[i].assertion.type = "NEB"
          /\ assertions[j].assertion.type = "NEN"
====
